---- MODULE Spec2Model ----
(***************************************************************************)
(* A model of Polyphony's libev backend (ext/polyphony/backend_libev.c):   *)
(* the fiber run queue and switch protocol, the watcher-based blocking     *)
(* operations, timeouts, and the byte-level transfer loops of write,       *)
(* writev and splice_chunks.                                               *)
(***************************************************************************)
EXTENDS Integers, Sequences, FiniteSets, TLC

\* ------------------------------------------------------------------ bounds
\* Number of fibers of the backend's thread.
NFibers == 3
\* Deepest nesting of timeout frames a fiber enters.
MaxDepth == 2

Fibers == 1..NFibers

\* ------------------------------------------------------------------ values
\* Resume values and operation results are tagged pairs.
Nil == <<"nil", 0>>
\* An exception object another fiber schedules a fiber with (cancellation).
Cancel == <<"exc", 0>>
\* The TimeoutException instance created by the timeout frame at depth d.
Sentinel(d) == <<"timeout", d>>
\* The exception built from the caller's exception argument by frame d.
Fresh(d) == <<"E", d>>
\* The move_on_value argument of frame d.
MoveOn(d) == <<"move_on", d>>
\* The SystemCallError raised by rb_syserr_fail.
SysErr == <<"syserr", 0>>
\* The [pid, status] array built by the child callback.
ChildStatus == <<"status", 0>>
\* The normal result of an operation or of a block.
Data == <<"data", 0>>
\* No value (history variables only).
None == <<"none", 0>>

TEST_EXCEPTION(v) == v[1] \in {"exc", "timeout", "E", "syserr"}

\* No failed syscall.
NoSyscall == [errno |-> "none", fn |-> "none"]

\* ------------------------------------------------------------------ state
VARIABLES
    runqueue,   \* sequence of [fiber, value]: the backend's run queue
    cur,        \* the current fiber
    phase,      \* "run": cur executes; "switch", "poll", "polled": cur is inside switch_fiber
    pc,         \* per fiber: "idle", "snooze", or "await" ("await_r", "await_w", "await_rw"
                \* inside libev_wait_rw_fd_with_watcher, by the fds registered)
    op,         \* per fiber: the operation it is inside (or ran last)
    awaited,    \* per fiber: watcher.fiber != Qnil of the running operation
    ref,        \* per fiber: libev_rw_ctx.ref_count of the running operation
    frames,     \* per fiber: stack of timeout frames, outermost first
    role,       \* per fiber: "worker" (runs every operation), "peer" or "absent"
    active,     \* watchers active in the event loop
    delivered,  \* active child watchers whose one event has been delivered
    pollset,    \* watchers whose callback ran in the ev_run in progress
    owned,      \* history: watchers started by ev_*_start and not yet passed to ev_*_stop
    unpaired,   \* history: a start of a started watcher, or a stop without a start
    ret,        \* per fiber: outcome of the last finished operation
    tmo,        \* per fiber: the timeout frames left by its last step
    sched,      \* history: per fiber, the value of the last schedule call since it suspended
    ahead,      \* history: per fiber, the fibers that have to be resumed before it
    snoozed,    \* history: per fiber, the fibers queued at its snooze call and not yet resumed
    locals,     \* the local variables of the one operation followed byte by byte
    fds,        \* the bytes its file descriptors hold
    currently_polling,  \* backend->base.currently_polling
    ev_loop,    \* backend->ev_loop: which loop it is, its ev_unref calls, the mode of its ev_run
    break_async,        \* backend->break_async: the loop it was started on, its pending signal
    waker,      \* the other thread: its position in Backend_wakeup, and history of its call
    syscall     \* history: the errno left by the syscall made in the last step of a
                \* fiber ("none": it succeeded, or none was made), and the operation
                \* that made it, when its handling of errno is its own

\* The state of the scheduler and of the event loop.
\* The state of the control surface: poll, wakeup, post_fork.
control == <<currently_polling, ev_loop, break_async, waker>>

backend == <<runqueue, cur, phase, pc, op, awaited, ref, frames, role, active,
             delivered, pollset, owned, unpaired, ret, tmo, sched, ahead, snoozed, control,
             syscall>>

\* The state of the operation followed byte by byte.
transfer == <<locals, fds>>

vars == <<backend, transfer>>

\* ------------------------------------------------------------------ run queue
Entry(f, v) == [fiber |-> f, value |-> v]

Queued(rq) == {rq[i].fiber : i \in DOMAIN rq}

runqueue_index(rq, f) ==
    IF f \in Queued(rq) THEN CHOOSE i \in DOMAIN rq : rq[i].fiber = f ELSE 0

runqueue_push(rq, f, v) == Append(rq, Entry(f, v))

runqueue_unshift(rq, f, v) == <<Entry(f, v)>> \o rq

\* schedule(fiber, value, prioritize): an already queued fiber gets the value
\* in place, another is inserted at the front (prioritize) or at the back.
backend_base_schedule_fiber(rq, f, v, prioritize) ==
    IF f \in Queued(rq)
    THEN [rq EXCEPT ![runqueue_index(rq, f)].value = v]
    ELSE IF prioritize THEN runqueue_unshift(rq, f, v) ELSE runqueue_push(rq, f, v)

\* Mutant: the queued-already case is not passed on; the fiber is inserted again.
Backend_schedule_fiber_requeue(rq, f, v, prioritize) ==
    IF prioritize THEN runqueue_unshift(rq, f, v) ELSE runqueue_push(rq, f, v)

Backend_schedule_fiber(rq, f, v, prioritize) ==
    backend_base_schedule_fiber(rq, f, v, prioritize)

\* Fiber_make_runnable: what every watcher callback and snooze use.
Fiber_make_runnable(rq, f, v) == Backend_schedule_fiber(rq, f, v, FALSE)

\* switch_fiber step 3: pop the head of the run queue.
backend_base_switch_fiber(rq) ==
    [next |-> Head(rq).fiber, value |-> Head(rq).value, rq |-> Tail(rq)]

\* Mutant: the most recently queued fiber is resumed.
Backend_switch_fiber_last(rq) ==
    [next |-> rq[Len(rq)].fiber, value |-> rq[Len(rq)].value, rq |-> SubSeq(rq, 1, Len(rq) - 1)]

Backend_switch_fiber(rq) == backend_base_switch_fiber(rq)

\* ------------------------------------------------------------------ reactor
\* A watcher is named by the fiber whose frame holds it, its kind and, for a
\* timeout timer, the depth of its frame.
Watcher(f, slot, d) == [fiber |-> f, slot |-> slot, d |-> d]

IoW(f) == Watcher(f, "io", 0)
ReadW(f) == Watcher(f, "r", 0)
WriteW(f) == Watcher(f, "w", 0)
TimerW(f) == Watcher(f, "timer", 0)
ChildW(f) == Watcher(f, "child", 0)
AsyncW(f) == Watcher(f, "async", 0)
TimeoutW(f, d) == Watcher(f, "timeout", d)

\* The event loop's registrations with their start/stop history.
Loop == [active |-> active, delivered |-> delivered, owned |-> owned, unpaired |-> unpaired]

ev_start(W, w) ==
    [active |-> W.active \cup {w}, delivered |-> W.delivered,
     owned |-> W.owned \cup {w}, unpaired |-> W.unpaired \/ w \in W.owned]

ev_stop(W, w) ==
    [active |-> W.active \ {w}, delivered |-> W.delivered \ {w},
     owned |-> W.owned \ {w}, unpaired |-> W.unpaired \/ w \notin W.owned]

\* ------------------------------------------------------------------ callbacks
\* Mutant: a readiness callback inserts its fiber at the front.
Backend_io_callback_front(rq, w) == Backend_schedule_fiber(rq, w.fiber, Nil, TRUE)

Backend_io_callback(rq, w) == Fiber_make_runnable(rq, w.fiber, Nil)

\* Mutant: the timer's callback schedules nothing.
Backend_timer_callback_lost(rq, w) == rq

Backend_timer_callback(rq, w) == Fiber_make_runnable(rq, w.fiber, Nil)

Backend_timeout_callback(rq, w) == Fiber_make_runnable(rq, w.fiber, Sentinel(w.d))

Backend_child_callback(rq, w) == Fiber_make_runnable(rq, w.fiber, ChildStatus)

Backend_async_callback(rq, w) == rq

\* Mutant: the count is tested and not decremented.
Backend_rw_io_callback_kept(rq, rc, w) ==
    [rq |-> IF rc[w.fiber] = 0 THEN Fiber_make_runnable(rq, w.fiber, Nil) ELSE rq,
     ref |-> rc]

\* int ref_count = ctx->ref_count--; if (!ref_count) Fiber_make_runnable(...)
Backend_rw_io_callback(rq, rc, w) ==
    LET ref_count == rc[w.fiber]
    IN  [rq |-> IF ref_count = 0 THEN Fiber_make_runnable(rq, w.fiber, Nil) ELSE rq,
         ref |-> [rc EXCEPT ![w.fiber] = ref_count - 1]]

\* ------------------------------------------------------------------ history
Hist == [sched |-> sched, ahead |-> ahead, snoozed |-> snoozed]

\* A schedule call for f with value v, made when the run queue was rq.
NoteSchedule(G, rq, f, v, prioritize) ==
    [sched |-> [G.sched EXCEPT ![f] = v],
     ahead |-> IF f \in Queued(rq) THEN G.ahead
               ELSE IF prioritize
               THEN [h \in Fibers |-> IF h = f THEN {}
                                      ELSE IF h \in Queued(rq) THEN G.ahead[h] \cup {f}
                                      ELSE G.ahead[h]]
               ELSE [G.ahead EXCEPT ![f] = Queued(rq)],
     snoozed |-> G.snoozed]

\* The snooze call of f, made when the run queue was rq.
NoteSnooze(G, rq, f) ==
    [NoteSchedule(G, rq, f, Nil, FALSE) EXCEPT !.snoozed[f] = Queued(rq) \ {f}]

\* f has been switched to.
NoteSwitch(G, f) ==
    [sched |-> G.sched,
     ahead |-> [h \in Fibers |-> IF h = f THEN {} ELSE G.ahead[h] \ {f}],
     snoozed |-> [h \in Fibers |-> IF h = f THEN {} ELSE G.snoozed[h] \ {f}]]

\* The value the callback of w schedules its fiber with; None when it schedules nothing.
CallbackValue(rc, w) ==
    CASE w.slot \in {"io", "timer"} -> Nil
      [] w.slot = "timeout" -> Sentinel(w.d)
      [] w.slot = "child" -> ChildStatus
      [] w.slot \in {"r", "w"} -> IF rc[w.fiber] = 0 THEN Nil ELSE None
      [] OTHER -> None

\* ------------------------------------------------------------------ steps of a fiber
AwaitPcs == {"await", "await_r", "await_w", "await_rw"}

Running(f) == cur = f /\ phase = "run" /\ pc[f] = "idle" /\ role[f] # "absent"

\* f is the fiber switch_fiber resumes next.
Resuming(f, at) ==
    /\ phase \in {"switch", "polled"}
    /\ runqueue # <<>>
    /\ Backend_switch_fiber(runqueue).next = f
    /\ pc[f] = at

Outcome(k, v) == [k |-> k, v |-> v]

\* The conversion of a fired timeout: a fresh exception built from E, or
\* move_on_value when no E was given.
Converted(exc, d) ==
    IF exc THEN Outcome("raise", Fresh(d)) ELSE Outcome("return", MoveOn(d))

\* Mutant: every timeout sentinel is converted, whichever frame made it.
Backend_timeout_result_any(exc, d, result) ==
    IF result[1] = "timeout" THEN Converted(exc, d)
    ELSE IF TEST_EXCEPTION(result) THEN Outcome("raise", result)
    ELSE Outcome("return", result)

\* What Backend_timeout does with the value rb_ensure hands it: the block's
\* value, or the exception the block raised.
Backend_timeout_result(exc, d, result) ==
    IF result = Sentinel(d) THEN Converted(exc, d)
    ELSE IF TEST_EXCEPTION(result) THEN Outcome("raise", result)
    ELSE Outcome("return", result)

Backend_timeout_ensure(W, w) == ev_stop(W, w)

\* An exception x raised inside the innermost block of f passes the timeout
\* frames fs, innermost first, until one of them returns normally.
RECURSIVE Unwind(_, _, _, _, _)
Unwind(f, fs, x, W, exits) ==
    IF fs = <<>>
    THEN [frames |-> fs, out |-> Outcome("raise", x), W |-> W, exits |-> exits]
    ELSE LET d == Len(fs)
             r == Backend_timeout_result(fs[d].exc, d, x)
             W2 == Backend_timeout_ensure(W, TimeoutW(f, d))
             e == [d |-> d, exc |-> fs[d].exc, fired |-> fs[d].fired,
                   block |-> Outcome("raise", x), out |-> r,
                   stopped |-> TimeoutW(f, d) \notin W2.active]
         IN  IF r.k = "return"
             THEN [frames |-> SubSeq(fs, 1, d - 1), out |-> r, W |-> W2,
                   exits |-> Append(exits, e)]
             ELSE Unwind(f, SubSeq(fs, 1, d - 1), r.v, W2, Append(exits, e))

\* The variables every step of a fiber sets through one of Leave, Await, Snooze.
SetLoop(W) ==
    /\ active' = W.active
    /\ delivered' = W.delivered
    /\ owned' = W.owned
    /\ unpaired' = W.unpaired

SetHist(G) ==
    /\ sched' = G.sched
    /\ ahead' = G.ahead
    /\ snoozed' = G.snoozed

\* f leaves its operation with outcome o and goes on running.
Leave(f, o, W, rq, G) ==
    LET u == IF o.k = "raise" THEN Unwind(f, frames[f], o.v, W, <<>>)
             ELSE [frames |-> frames[f], out |-> o, W |-> W, exits |-> <<>>]
    IN  /\ pc' = [pc EXCEPT ![f] = "idle"]
        /\ phase' = "run"
        /\ frames' = [frames EXCEPT ![f] = u.frames]
        /\ ret' = [ret EXCEPT ![f] = u.out]
        /\ tmo' = [tmo EXCEPT ![f] = u.exits]
        /\ runqueue' = rq
        /\ SetLoop(u.W)
        /\ SetHist(G)
        /\ awaited' = [awaited EXCEPT ![f] = FALSE]
        /\ ref' = [ref EXCEPT ![f] = 0]
        /\ op' = [op EXCEPT ![f] = "none"]
        /\ UNCHANGED <<control, transfer>>

\* backend_await: f starts the watchers ws and switches away without
\* scheduling itself.
Await(f, k, at, ws, W, rq, G) ==
    /\ pc' = [pc EXCEPT ![f] = at]
    /\ op' = [op EXCEPT ![f] = k]
    /\ phase' = "switch"
    /\ runqueue' = rq
    /\ SetLoop(W)
    /\ SetHist([G EXCEPT !.sched[f] = None])
    /\ awaited' = [awaited EXCEPT ![f] = TRUE]
    /\ ref' = [ref EXCEPT ![f] = Cardinality({w \in ws : w.slot \in {"r", "w"}})]
    /\ tmo' = [tmo EXCEPT ![f] = <<>>]
    /\ ret' = [ret EXCEPT ![f] = Outcome("none", None)]
    /\ UNCHANGED frames
    /\ UNCHANGED <<control, transfer>>

\* backend_snooze: f schedules itself with nil and switches away.
Snooze(f, k, W, rq, G) ==
    /\ pc' = [pc EXCEPT ![f] = "snooze"]
    /\ op' = [op EXCEPT ![f] = k]
    /\ phase' = "switch"
    /\ runqueue' = Fiber_make_runnable(rq, f, Nil)
    /\ SetLoop(W)
    /\ SetHist(NoteSnooze(G, rq, f))
    /\ tmo' = [tmo EXCEPT ![f] = <<>>]
    /\ ret' = [ret EXCEPT ![f] = Outcome("none", None)]
    /\ UNCHANGED <<frames, awaited, ref>>
    /\ UNCHANGED <<control, transfer>>

\* The result of an operation that hands the resume value v to its caller,
\* raising it when it is an exception.
RAISE_IF_EXCEPTION(v) ==
    IF TEST_EXCEPTION(v) THEN Outcome("raise", v) ELSE Outcome("return", v)

\* ------------------------------------------------------------------ scheduler-level operations
\* snooze() called by user code.
Fiber_snooze(f) ==
    /\ Running(f)
    /\ Snooze(f, "snooze", Loop, runqueue, Hist)
    /\ syscall' = NoSyscall
    /\ UNCHANGED <<cur, role, pollset>>

Fiber_snooze_resume(f) ==
    /\ Resuming(f, "snooze")
    /\ op[f] = "snooze"
    /\ LET s == Backend_switch_fiber(runqueue)
       IN  /\ cur' = f
           /\ Leave(f, RAISE_IF_EXCEPTION(s.value), Loop, s.rq, NoteSwitch(Hist, f))
    /\ syscall' = NoSyscall
    /\ UNCHANGED <<role, pollset>>

\* A bare await (suspend) called by user code.
Fiber_suspend(f) ==
    /\ Running(f)
    /\ Await(f, "suspend", "await", {}, Loop, runqueue, Hist)
    /\ syscall' = NoSyscall
    /\ UNCHANGED <<cur, role, pollset>>

Fiber_suspend_resume(f) ==
    /\ Resuming(f, "await")
    /\ op[f] = "suspend"
    /\ LET s == Backend_switch_fiber(runqueue)
       IN  /\ cur' = f
           /\ Leave(f, RAISE_IF_EXCEPTION(s.value), Loop, s.rq, NoteSwitch(Hist, f))
    /\ syscall' = NoSyscall
    /\ UNCHANGED <<role, pollset>>

\* schedule(g, v, prioritize) called by the running fiber f for another fiber.
Fiber_schedule(f, g, v, prioritize) ==
    /\ Running(f)
    /\ syscall' = NoSyscall
    /\ g # f
    /\ role[g] # "absent"
    /\ runqueue' = Backend_schedule_fiber(runqueue, g, v, prioritize)
    /\ SetHist(NoteSchedule(Hist, runqueue, g, v, prioritize))
    /\ UNCHANGED <<control, locals, fds, cur, phase, pc, op, awaited, ref, frames, role, active, delivered,
                   pollset, owned, unpaired, ret, tmo>>

\* ------------------------------------------------------------------ libev_wait_fd
\* The first half of libev_wait_fd_with_watcher: ev_io_start.
libev_wait_fd_start(W, f) == ev_start(W, IoW(f))

\* Mutant: an exception resume value leaves before ev_io_stop.
libev_wait_fd_stop_unless_exception(W, f, v) ==
    IF TEST_EXCEPTION(v) THEN W ELSE ev_stop(W, IoW(f))

\* The second half, after backend_await returned v: ev_io_stop.
libev_wait_fd_stop(W, f, v) == ev_stop(W, IoW(f))

\* Mutant: the resume value is dropped.
libev_wait_fd_with_watcher_nil(v) == Nil

\* The value libev_wait_fd_with_watcher returns when backend_await returned v.
libev_wait_fd_with_watcher(v) == v

Backend_wait_io(f) ==
    /\ Running(f)
    /\ Await(f, "wait_io", "await", {IoW(f)}, libev_wait_fd_start(Loop, f), runqueue, Hist)
    /\ syscall' = NoSyscall
    /\ UNCHANGED <<cur, role, pollset>>

Backend_wait_io_resume(f) ==
    /\ Resuming(f, "await")
    /\ op[f] = "wait_io"
    /\ LET s == Backend_switch_fiber(runqueue)
           v == libev_wait_fd_with_watcher(s.value)
       IN  /\ cur' = f
           /\ Leave(f, RAISE_IF_EXCEPTION(v), libev_wait_fd_stop(Loop, f, s.value),
                    s.rq, NoteSwitch(Hist, f))
    /\ syscall' = NoSyscall
    /\ UNCHANGED <<role, pollset>>

\* ------------------------------------------------------------------ libev_wait_rw_fd
\* The watchers libev_wait_rw_fd_with_watcher starts for r_fd and w_fd.
RwWatchers(f, at) ==
    (IF at \in {"await_r", "await_rw"} THEN {ReadW(f)} ELSE {}) \cup
    (IF at \in {"await_w", "await_rw"} THEN {WriteW(f)} ELSE {})

RECURSIVE StartAll(_, _)
StartAll(W, ws) ==
    IF ws = {} THEN W
    ELSE LET w == CHOOSE x \in ws : TRUE IN StartAll(ev_start(W, w), ws \ {w})

RECURSIVE StopAll(_, _)
StopAll(W, ws) ==
    IF ws = {} THEN W
    ELSE LET w == CHOOSE x \in ws : TRUE IN StopAll(ev_stop(W, w), ws \ {w})

libev_wait_rw_fd_start(W, f, at) == StartAll(W, RwWatchers(f, at))

libev_wait_rw_fd_stop(W, f, at) == StopAll(W, RwWatchers(f, at))

\* ------------------------------------------------------------------ operations built on a syscall
\* Operations that wait with one libev_io watcher.
IoOps == {"read", "read_eof", "read_loop", "feed_loop", "accept", "accept_loop",
          "connect", "write", "writev", "send", "splice_fb", "splice_to_eof_fb"}

\* Operations that wait with the read/write watcher pair.
RwOps == {"splice", "splice_to_eof", "splice_chunks"}

\* Operations that snooze after every successful syscall.
SnoozeEach == {"read", "read_eof", "read_loop", "feed_loop", "accept", "accept_loop",
               "connect"}

\* Operations whose loop goes on after the snooze.
Loops == {"read_eof", "read_loop", "feed_loop", "accept_loop"}

\* Where the operation waits when its syscall would block.
AwaitAt(k) ==
    CASE k \in IoOps -> {"await"}
      [] k \in {"splice", "splice_to_eof"} -> {"await_rw"}
      [] OTHER -> {"await_r", "await_w", "await_rw"}

StartWatchers(W, f, at) ==
    IF at = "await" THEN libev_wait_fd_start(W, f) ELSE libev_wait_rw_fd_start(W, f, at)

StopWatchers(W, f, at, v) ==
    IF at = "await" THEN libev_wait_fd_stop(W, f, v) ELSE libev_wait_rw_fd_stop(W, f, at)

\* The errno values a failing syscall leaves: the two that mean "would
\* block", EINTR, and one that means neither.
Errnos == {"EAGAIN", "EINPROGRESS", "EINTR", "EBADF"}

ErrnoCode(e) ==
    CASE e = "EINTR" -> 4
      [] e = "EBADF" -> 9
      [] e = "EAGAIN" -> 11
      [] e = "EINPROGRESS" -> 115

\* rb_syserr_fail(e, strerror(e))
rb_syserr_fail(e) == Outcome("raise", <<"syserr", ErrnoCode(e)>>)

\* Mutant: every operation takes EAGAIN and EINPROGRESS for "would block".
WouldBlock_either(k, e) == e \in {"EAGAIN", "EINPROGRESS"}

\* The test each operation makes on the errno of its failed syscall:
\* e != EINPROGRESS in connect, e != EWOULDBLOCK && e != EAGAIN elsewhere
\* (one value on Linux).
WouldBlock(k, e) == IF k = "connect" THEN e = "EINPROGRESS" ELSE e = "EAGAIN"

\* The record of a syscall of operation k that left errno e.
Made(k, e) == [errno |-> e, fn |-> IF k \in {"connect", "splice_chunks"} THEN k ELSE "io"]

\* Mutant: the operation snoozes after its last syscall, awaited or not.
SnoozeAfter_always(k, aw) == TRUE

\* backend_snooze after a successful syscall: after each one in the
\* operations of SnoozeEach, in the others if (watcher.fiber == Qnil), that is
\* when the operation has not awaited.
SnoozeAfter(k, aw) == k \in SnoozeEach \/ ~aw

\* The syscall loop of operation k, up to its next suspension or its exit:
\* the syscall fails with an errno, which makes the operation wait or raise,
\* or (after any number of partial results) succeeds. aw: the operation has
\* awaited before. splice_chunks raises with its own err variable, whose
\* value is followed in the byte-by-byte specification.
Syscalls(f, k, aw, W, rq, G) ==
    \/ \E e \in Errnos :
          /\ syscall' = Made(k, e)
          /\ IF WouldBlock(k, e)
             THEN \E at \in AwaitAt(k) :
                     Await(f, k, at, RwWatchers(f, at), StartWatchers(W, f, at), rq, G)
             ELSE Leave(f, IF k = "splice_chunks" THEN Outcome("raise", SysErr)
                                                  ELSE rb_syserr_fail(e), W, rq, G)
    \/ /\ syscall' = Made(k, "none")
       /\ IF SnoozeAfter(k, aw)
          THEN Snooze(f, k, W, rq, G)
          ELSE Leave(f, Outcome("return", Data), W, rq, G)

Backend_op(f, k) ==
    /\ Running(f)
    /\ role[f] = "worker"
    /\ Syscalls(f, k, FALSE, Loop, runqueue, Hist)
    /\ UNCHANGED <<cur, role, pollset>>

\* The operation resumes from libev_wait_fd_with_watcher or
\* libev_wait_rw_fd_with_watcher.
Backend_op_resume_await(f, k) ==
    /\ \E at \in AwaitAt(k) : Resuming(f, at)
    /\ op[f] = k
    /\ LET s == Backend_switch_fiber(runqueue)
           W == StopWatchers(Loop, f, pc[f], s.value)
           v == IF pc[f] = "await" THEN libev_wait_fd_with_watcher(s.value) ELSE s.value
           G == NoteSwitch(Hist, f)
       IN  /\ cur' = f
           /\ IF TEST_EXCEPTION(v)
              THEN Leave(f, Outcome("raise", v), W, s.rq, G) /\ syscall' = NoSyscall
              ELSE IF k = "connect"
              THEN Leave(f, Outcome("return", Data), W, s.rq, G) /\ syscall' = NoSyscall
              ELSE Syscalls(f, k, TRUE, W, s.rq, G)
    /\ UNCHANGED <<role, pollset>>

\* The operation resumes from backend_snooze.
Backend_op_resume_snooze(f, k) ==
    /\ Resuming(f, "snooze")
    /\ op[f] = k
    /\ LET s == Backend_switch_fiber(runqueue)
           G == NoteSwitch(Hist, f)
       IN  /\ cur' = f
           /\ IF TEST_EXCEPTION(s.value)
              THEN Leave(f, Outcome("raise", s.value), Loop, s.rq, G) /\ syscall' = NoSyscall
              ELSE \/ /\ k # "accept_loop"
                      /\ Leave(f, Outcome("return", Data), Loop, s.rq, G)
                      /\ syscall' = NoSyscall
                   \/ k \in Loops /\ Syscalls(f, k, awaited[f], Loop, s.rq, G)
    /\ UNCHANGED <<role, pollset>>

\* ------------------------------------------------------------------ operations that wait once
\* Operations that start one watcher, await, stop it and hand on the resume value.
WaitOps == {"sleep", "timer_loop", "waitpid", "waitpid_pidfd", "wait_event",
            "wait_event_noraise"}

WaitWatcher(f, k) ==
    CASE k \in {"sleep", "timer_loop"} -> TimerW(f)
      [] k = "waitpid" -> ChildW(f)
      [] k = "waitpid_pidfd" -> IoW(f)
      [] OTHER -> AsyncW(f)

\* Backend_sleep, Backend_timer_loop, Backend_waitpid (both builds) and
\* Backend_wait_event up to backend_await. pidfd_open may fail before any
\* watcher exists.
Backend_wait(f, k) ==
    /\ Running(f)
    /\ role[f] = "worker"
    /\ \/ Await(f, k, "await", {}, ev_start(Loop, WaitWatcher(f, k)), runqueue, Hist)
       \/ k = "waitpid_pidfd" /\ Leave(f, Outcome("raise", SysErr), Loop, runqueue, Hist)
    /\ syscall' = NoSyscall
    /\ UNCHANGED <<cur, role, pollset>>

\* The same operations from the return of backend_await.
Backend_wait_resume(f, k) ==
    /\ Resuming(f, "await")
    /\ op[f] = k
    /\ LET s == Backend_switch_fiber(runqueue)
           W == ev_stop(Loop, WaitWatcher(f, k))
           G == NoteSwitch(Hist, f)
       IN  /\ cur' = f
           /\ CASE k = "wait_event_noraise" ->
                      Leave(f, Outcome("return", s.value), W, s.rq, G)
                [] k = "timer_loop" /\ ~TEST_EXCEPTION(s.value) ->
                      Await(f, k, "await", {}, ev_start(W, WaitWatcher(f, k)), s.rq, G)
                [] k = "waitpid_pidfd" /\ ~TEST_EXCEPTION(s.value) ->
                      \/ Leave(f, Outcome("return", ChildStatus), W, s.rq, G)
                      \/ Leave(f, Outcome("raise", SysErr), W, s.rq, G)
                [] OTHER -> Leave(f, RAISE_IF_EXCEPTION(s.value), W, s.rq, G)
    /\ syscall' = NoSyscall
    /\ UNCHANGED <<role, pollset>>

\* ------------------------------------------------------------------ Backend_timeout
\* Backend_timeout up to the call of the block: a frame with its own sentinel
\* and a started timer.
Backend_timeout(f, exc) ==
    /\ Running(f)
    /\ syscall' = NoSyscall
    /\ role[f] = "worker"
    /\ Len(frames[f]) < MaxDepth
    /\ frames' = [frames EXCEPT ![f] = Append(@, [exc |-> exc, fired |-> FALSE])]
    /\ SetLoop(ev_start(Loop, TimeoutW(f, Len(frames[f]) + 1)))
    /\ tmo' = [tmo EXCEPT ![f] = <<>>]
    /\ UNCHANGED <<control, locals, fds, runqueue, cur, phase, pc, op, awaited, ref, role, pollset, ret,
                   sched, ahead, snoozed>>

\* The block of the innermost frame finishes with value v.
Backend_timeout_return(f, v) ==
    /\ Running(f)
    /\ syscall' = NoSyscall
    /\ frames[f] # <<>>
    /\ LET d == Len(frames[f])
           W == Backend_timeout_ensure(Loop, TimeoutW(f, d))
           r == Backend_timeout_result(frames[f][d].exc, d, v)
           e == [d |-> d, exc |-> frames[f][d].exc, fired |-> frames[f][d].fired,
                 block |-> Outcome("return", v), out |-> r,
                 stopped |-> TimeoutW(f, d) \notin W.active]
       IN  IF r.k = "return"
           THEN /\ frames' = [frames EXCEPT ![f] = SubSeq(@, 1, d - 1)]
                /\ ret' = [ret EXCEPT ![f] = r]
                /\ tmo' = [tmo EXCEPT ![f] = <<e>>]
                /\ SetLoop(W)
                /\ UNCHANGED <<control, locals, fds, runqueue, cur, phase, pc, op, awaited, ref, role, pollset,
                               sched, ahead, snoozed>>
           ELSE LET u == Unwind(f, SubSeq(frames[f], 1, d - 1), r.v, W, <<e>>)
                IN  /\ frames' = [frames EXCEPT ![f] = u.frames]
                    /\ ret' = [ret EXCEPT ![f] = u.out]
                    /\ tmo' = [tmo EXCEPT ![f] = u.exits]
                    /\ SetLoop(u.W)
                    /\ UNCHANGED <<control, locals, fds, runqueue, cur, phase, pc, op, awaited, ref, role,
                                   pollset, sched, ahead, snoozed>>

\* ------------------------------------------------------------------ Backend_initialize
\* The watcher the backend keeps for breaking a poll from another thread.
BreakW == Watcher(0, "break", 0)

\* Backend_initialize: a new loop, break_async started on it, and one
\* ev_unref so that break_async does not count as a reference of the loop.
Backend_initialize ==
    [currently_polling |-> FALSE,
     ev_loop |-> [id |-> 0, unref |-> 1, run |-> "none"],
     break_async |-> [loop |-> 0, sent |-> FALSE]]

\* ev_is_active(&break_async) on the backend's current loop.
BreakStarted == break_async.loop = ev_loop.id

\* The reference count of the current loop: its active watchers, less the
\* ev_unref calls made on it.
LoopRefs == Cardinality(active) + (IF BreakStarted THEN 1 ELSE 0) - ev_loop.unref

\* ------------------------------------------------------------------ Backend_poll
\* switch_fiber runs the reactor: blocking while the run queue is empty, and
\* at most once, non-blocking, before a switch otherwise.
Backend_poll_enter ==
    /\ phase = "switch" \/ (phase = "polled" /\ runqueue = <<>>)
    /\ phase' = "poll"
    /\ pollset' = {}
    /\ currently_polling' = TRUE
    /\ ev_loop' = [ev_loop EXCEPT !.run = IF runqueue = <<>> THEN "once" ELSE "nowait"]
    /\ waker' = [waker EXCEPT !.later = waker.during]
    /\ UNCHANGED <<break_async, syscall, locals, fds, runqueue, cur, pc, op, awaited, ref, frames, role,
                   active, delivered, owned, unpaired, ret, tmo, sched, ahead, snoozed>>

\* ev_run invokes the callback of a watcher with a pending event.
InvokeCallback(w) ==
    /\ phase = "poll"
    /\ w \in active
    /\ w \notin delivered
    /\ w \notin pollset
    /\ pollset' = pollset \cup {w}
    /\ LET v == CallbackValue(ref, w)
           rw == Backend_rw_io_callback(runqueue, ref, w)
       IN  /\ runqueue' = CASE w.slot = "io" -> Backend_io_callback(runqueue, w)
                            [] w.slot = "timer" -> Backend_timer_callback(runqueue, w)
                            [] w.slot = "timeout" -> Backend_timeout_callback(runqueue, w)
                            [] w.slot = "child" -> Backend_child_callback(runqueue, w)
                            [] w.slot = "async" -> Backend_async_callback(runqueue, w)
                            [] OTHER -> rw.rq
           /\ ref' = IF w.slot \in {"r", "w"} THEN rw.ref ELSE ref
           /\ SetHist(IF v = None THEN Hist ELSE NoteSchedule(Hist, runqueue, w.fiber, v, FALSE))
    \* a timer without repeat is stopped by libev when it expires
    /\ active' = IF w.slot \in {"timer", "timeout"} THEN active \ {w} ELSE active
    /\ delivered' = IF w.slot = "child" THEN delivered \cup {w} ELSE delivered
    /\ frames' = IF w.slot = "timeout"
                 THEN [frames EXCEPT ![w.fiber][w.d].fired = TRUE]
                 ELSE frames
    /\ UNCHANGED <<control, syscall, locals, fds, cur, phase, pc, op, awaited, role, owned, unpaired, ret, tmo>>

\* ev_run returns: at once when it does not block (EVRUN_NOWAIT, or a loop
\* without a reference), otherwise after an event.
Backend_poll_leave ==
    /\ phase = "poll"
    /\ ev_loop.run = "nowait" \/ pollset # {} \/ LoopRefs = 0
    /\ phase' = "polled"
    /\ pollset' = {}
    /\ currently_polling' = FALSE
    /\ ev_loop' = [ev_loop EXCEPT !.run = "none"]
    /\ UNCHANGED <<break_async, waker, syscall, locals, fds, runqueue, cur, pc, op, awaited, ref, frames,
                   role, active, delivered, owned, unpaired, ret, tmo, sched, ahead, snoozed>>

\* ------------------------------------------------------------------ the scheduler alone
\* Every fiber is a peer: fiber 1 runs, the others have just been spun up and
\* wait in the run queue.
InitCommon ==
    /\ syscall = NoSyscall
    /\ currently_polling = Backend_initialize.currently_polling
    /\ ev_loop = Backend_initialize.ev_loop
    /\ break_async = Backend_initialize.break_async
    /\ waker = [pc |-> "idle", during |-> FALSE, later |-> FALSE, inside |-> FALSE]
    /\ cur = 1
    /\ phase = "run"
    /\ awaited = [f \in Fibers |-> FALSE]
    /\ ref = [f \in Fibers |-> 0]
    /\ frames = [f \in Fibers |-> <<>>]
    /\ active = {}
    /\ delivered = {}
    /\ pollset = {}
    /\ owned = {}
    /\ unpaired = FALSE
    /\ ret = [f \in Fibers |-> Outcome("none", None)]
    /\ tmo = [f \in Fibers |-> <<>>]
    /\ sched = [f \in Fibers |-> None]

StartQueue(fs) ==
    /\ runqueue = [i \in 1..Cardinality(fs) |-> Entry(i + 1, Nil)]
    /\ pc = [f \in Fibers |-> IF f \in fs THEN "snooze" ELSE "idle"]
    /\ op = [f \in Fibers |-> IF f \in fs THEN "snooze" ELSE "none"]
    /\ ahead = [f \in Fibers |-> IF f \in fs THEN {g \in fs : g < f} ELSE {}]
    /\ snoozed = [f \in Fibers |-> {}]

\* No operation is followed byte by byte.
NoTransfer ==
    /\ locals = [fn |-> "none"]
    /\ fds = [dest |-> <<>>]

InitSched ==
    /\ InitCommon
    /\ NoTransfer
    /\ role = [f \in Fibers |-> "peer"]
    /\ StartQueue(Fibers \ {1})

PeerStep(f) ==
    \/ Fiber_snooze(f)
    \/ Fiber_snooze_resume(f)
    \/ Fiber_suspend(f)
    \/ Fiber_suspend_resume(f)
    \/ Backend_wait_io(f)
    \/ Backend_wait_io_resume(f)
    \/ \E g \in Fibers, v \in {Nil, Cancel}, p \in BOOLEAN : Fiber_schedule(f, g, v, p)

Reactor ==
    \/ Backend_poll_enter
    \/ \E w \in active : InvokeCallback(w)
    \/ Backend_poll_leave

NextSched == (\E f \in Fibers : PeerStep(f)) \/ Reactor

SpecSched == InitSched /\ [][NextSched]_vars

\* ------------------------------------------------------------------ wakeup, post_fork
\* History: the owner thread is inside Backend_poll(blocking), between its
\* entry and the return of ev_run. The poll is blocking when the run queue is
\* empty.
InsideBlockingPoll ==
    \/ phase = "enter" /\ runqueue = <<>>
    \/ phase = "poll" /\ ev_loop.run = "once"

\* Backend_wakeup runs on another thread, so its read of currently_polling
\* and its ev_async_send are two steps the owner thread can run between. The
\* read of the flag is not synchronised; of one int it yields the value
\* written last or the one before, which is what reading a moment earlier
\* yields, so every outcome is an interleaving of these steps.
Backend_wakeup ==
    /\ waker.pc = "idle"
    /\ waker' = IF currently_polling
                THEN [pc |-> "send", during |-> ev_loop.run = "once", later |-> FALSE,
                      inside |-> InsideBlockingPoll]
                ELSE [pc |-> "idle", during |-> FALSE, later |-> FALSE,
                      inside |-> InsideBlockingPoll]
    /\ UNCHANGED <<runqueue, cur, phase, pc, op, awaited, ref, frames, role, active, delivered,
                   pollset, owned, unpaired, ret, tmo, sched, ahead, snoozed,
                   currently_polling, ev_loop, break_async, syscall, transfer>>

\* ev_async_send(backend->ev_loop, &backend->break_async); return Qtrue.
Backend_wakeup_send ==
    /\ waker.pc = "send"
    /\ break_async' = [break_async EXCEPT !.sent = TRUE]
    /\ waker' = [waker EXCEPT !.pc = "idle"]
    /\ UNCHANGED <<runqueue, cur, phase, pc, op, awaited, ref, frames, role, active, delivered,
                   pollset, owned, unpaired, ret, tmo, sched, ahead, snoozed,
                   currently_polling, ev_loop, syscall, transfer>>

\* ev_run finds break_async signalled and invokes its callback, which does
\* nothing. Only a loop the watcher is started on looks at its signal.
break_async_callback ==
    /\ phase = "poll"
    /\ BreakStarted
    /\ break_async.sent
    /\ break_async' = [break_async EXCEPT !.sent = FALSE]
    /\ pollset' = pollset \cup {BreakW}
    /\ UNCHANGED <<runqueue, cur, phase, pc, op, awaited, ref, frames, role, active, delivered,
                   owned, unpaired, ret, tmo, sched, ahead, snoozed,
                   currently_polling, ev_loop, waker, syscall, transfer>>

\* backend_base_reset: the run queue is emptied and the flag cleared.
backend_base_reset == [runqueue |-> <<>>, currently_polling |-> FALSE]

\* Backend_post_fork, called by the running fiber f of the forked process:
\* the loop is destroyed with every watcher on it, the default loop takes
\* its place, and the base is reset. break_async is not touched.
Backend_post_fork(f) ==
    /\ Running(f)
    /\ active' = {}
    /\ delivered' = {}
    /\ ev_loop' = [id |-> 1, unref |-> 0, run |-> "none"]
    /\ runqueue' = backend_base_reset.runqueue
    /\ currently_polling' = backend_base_reset.currently_polling
    /\ UNCHANGED <<cur, phase, pc, op, awaited, ref, frames, role, pollset, owned, unpaired,
                   ret, tmo, sched, ahead, snoozed, break_async, waker, syscall, transfer>>

NextControl ==
    \/ \E f \in Fibers : PeerStep(f)
    \/ Reactor
    \/ break_async_callback
    \/ Backend_wakeup
    \/ Backend_wakeup_send
    \/ \E f \in Fibers : Backend_post_fork(f)

SpecControl == InitSched /\ [][NextControl]_vars

\* ------------------------------------------------------------------ Backend_poll, step by step
\* For the owner thread alone Backend_poll up to ev_run is one step. Against
\* another thread's wakeup() it is two: the function is entered (poll_count++,
\* the trace hook), and then currently_polling is set and ev_run starts.
Backend_poll_entry ==
    /\ phase = "switch" \/ (phase = "polled" /\ runqueue = <<>>)
    /\ phase' = "enter"
    /\ waker' = [waker EXCEPT !.inside = FALSE]
    /\ UNCHANGED <<currently_polling, ev_loop, break_async, syscall, locals, fds, runqueue, cur,
                   pc, op, awaited, ref, frames, role, active, delivered, pollset, owned,
                   unpaired, ret, tmo, sched, ahead, snoozed>>

\* backend->base.currently_polling = 1; ev_run(...) starts.
Backend_poll_run ==
    /\ phase = "enter"
    /\ phase' = "poll"
    /\ pollset' = {}
    /\ currently_polling' = TRUE
    /\ ev_loop' = [ev_loop EXCEPT !.run = IF runqueue = <<>> THEN "once" ELSE "nowait"]
    /\ waker' = [waker EXCEPT !.later = waker.during]
    /\ UNCHANGED <<break_async, syscall, locals, fds, runqueue, cur, pc, op, awaited, ref, frames, role,
                   active, delivered, owned, unpaired, ret, tmo, sched, ahead, snoozed>>

NextPoll ==
    \/ \E f \in Fibers : PeerStep(f)
    \/ Backend_poll_entry
    \/ Backend_poll_run
    \/ \E w \in active : InvokeCallback(w)
    \/ Backend_poll_leave
    \/ break_async_callback
    \/ Backend_wakeup
    \/ Backend_wakeup_send

SpecPoll == InitSched /\ [][NextPoll]_vars

\* C34: a wakeup() that started while the owner was inside Backend_poll
\* (blocking), after its entry and before the return of its ev_run, and that
\* has returned, makes that poll return: the poll has handled an event, or
\* has the signal to handle, or does not wait at all.
C34_NoLostWakeup ==
    (waker.inside /\ waker.pc = "idle" /\ InsideBlockingPoll)
        => (pollset # {} \/ (break_async.sent /\ BreakStarted) \/ LoopRefs = 0)

\* C12: a wakeup() called by another thread while the owner is inside a
\* blocking poll makes that poll return (once the signal is sent the poll has
\* handled an event, or has the signal to handle, or does not wait at all), no
\* later poll is the one that handles this signal, and the steps of wakeup()
\* leave the run queue, every fiber's resume value and every watcher as they
\* were.
C12_Wakeup ==
    /\ [](/\ (waker.during /\ waker.pc = "idle" /\ ~waker.later /\ phase = "poll")
             => (pollset # {} \/ (break_async.sent /\ BreakStarted) \/ LoopRefs = 0)
          /\ (waker.during /\ BreakW \in pollset) => ~waker.later)
    /\ [][waker'.pc # waker.pc
          => UNCHANGED <<runqueue, sched, ret, active, delivered, owned, unpaired>>]_vars

\* C17: at every moment break_async is started on the backend's current
\* loop and is not counted in the loop's references, which are as many as
\* the operations' active watchers.
C17_BreakAsync == BreakStarted /\ LoopRefs = Cardinality(active)

\* ------------------------------------------------------------------ every operation
\* Fiber 1 is the worker: it calls every backend operation, inside timeout
\* blocks or not. The peers snooze, suspend, wait for I/O and schedule.
NPeers == 1

Peers == 2..(1 + NPeers)

Init ==
    /\ InitCommon
    /\ NoTransfer
    /\ role = [f \in Fibers |-> IF f = 1 THEN "worker" ELSE IF f \in Peers THEN "peer" ELSE "absent"]
    /\ StartQueue(Peers)

\* The values a block can finish with: its own value, or the resume value the
\* last operation handed it.
BlockValues(f) == {Data} \cup (IF ret[f].k = "return" THEN {ret[f].v} ELSE {})

WorkerStep(f) ==
    \/ \E k \in IoOps \cup RwOps : Backend_op(f, k)
    \/ \E k \in IoOps \cup RwOps : Backend_op_resume_await(f, k)
    \/ \E k \in IoOps \cup RwOps : Backend_op_resume_snooze(f, k)
    \/ \E k \in WaitOps : Backend_wait(f, k)
    \/ \E k \in WaitOps : Backend_wait_resume(f, k)
    \/ \E exc \in BOOLEAN : Backend_timeout(f, exc)
    \/ \E v \in BlockValues(f) : Backend_timeout_return(f, v)

Next ==
    \/ \E f \in Fibers : PeerStep(f)
    \/ \E f \in Fibers : WorkerStep(f)
    \/ Reactor

Spec == Init /\ [][Next]_vars

\* ------------------------------------------------------------------ Backend_write, Backend_send
\* One call of write or send, followed byte by byte. The fiber making it is
\* alone; at a suspension point the value it is resumed with is nil or an
\* exception.
MaxLen == 4

\* An operation makes at most MaxCalls syscalls.
MaxCalls == 5

\* A string of n bytes; byte i of string j is <<j, i>>.
Str(j, n) == [i \in 1..n |-> <<j, i>>]

ResumeValues == {Nil, Cancel}

\* No fiber is scheduled and the event loop is empty.
InitAlone ==
    /\ InitCommon
    /\ role = [f \in Fibers |-> "absent"]
    /\ StartQueue({})

\* Mutant: the byte count is kept, the buffer pointer is not advanced.
Backend_write_advance_left(l, n) == [l EXCEPT !.left = @ - n]

\* buf += n; left -= n;
Backend_write_advance(l, n) == [l EXCEPT !.buf = @ + n, !.left = @ - n]

\* After the loop: snooze unless the operation has awaited, then return len.
Backend_write_finish(l) ==
    IF l.awaited THEN [l EXCEPT !.pc = "done", !.result = Outcome("return", l.len)]
    ELSE [l EXCEPT !.pc = "snooze"]

\* while (left > 0)
Backend_write_loop(l) == IF l.left > 0 THEN [l EXCEPT !.pc = "loop"] ELSE Backend_write_finish(l)

InitWrite ==
    /\ InitAlone
    /\ \E fn \in {"write", "send"}, n \in 0..MaxLen :
          locals = Backend_write_loop([fn |-> fn, str |-> Str(1, n), len |-> n, buf |-> 1,
                                       left |-> n, awaited |-> FALSE, op_count |-> 0,
                                       pc |-> "loop", result |-> Outcome("none", None)])
    /\ fds = [dest |-> <<>>]

\* write(fd, buf, left) or send(fd, buf, left, flags) accepts n bytes.
Backend_write_accepted(n) ==
    /\ locals.fn \in {"write", "send"}
    /\ locals.pc = "loop"
    /\ locals.op_count < MaxCalls
    /\ n \in 1..locals.left
    /\ fds' = [fds EXCEPT !.dest = @ \o SubSeq(locals.str, locals.buf, locals.buf + n - 1)]
    /\ locals' = Backend_write_loop(
                    Backend_write_advance([locals EXCEPT !.op_count = @ + 1], n))
    /\ UNCHANGED backend

\* The syscall fails with EAGAIN: libev_wait_fd_with_watcher.
Backend_write_blocked ==
    /\ locals.fn \in {"write", "send"}
    /\ locals.pc = "loop"
    /\ locals.op_count < MaxCalls
    /\ locals' = [locals EXCEPT !.op_count = @ + 1, !.pc = "wait", !.awaited = TRUE]
    /\ UNCHANGED <<backend, fds>>

\* The syscall fails with another error: rb_syserr_fail.
Backend_write_failed ==
    /\ locals.fn \in {"write", "send"}
    /\ locals.pc = "loop"
    /\ locals.op_count < MaxCalls
    /\ locals' = [locals EXCEPT !.op_count = @ + 1, !.pc = "raised",
                                !.result = Outcome("raise", SysErr)]
    /\ UNCHANGED <<backend, fds>>

\* The fiber is resumed with v in libev_wait_fd_with_watcher.
Backend_write_resume(v) ==
    /\ locals.fn \in {"write", "send"}
    /\ locals.pc = "wait"
    /\ locals' = IF TEST_EXCEPTION(v)
                 THEN [locals EXCEPT !.pc = "raised", !.result = Outcome("raise", v)]
                 ELSE Backend_write_loop(locals)
    /\ UNCHANGED <<backend, fds>>

\* The fiber is resumed with v in backend_snooze.
Backend_write_snoozed(v) ==
    /\ locals.fn \in {"write", "send"}
    /\ locals.pc = "snooze"
    /\ locals' = IF TEST_EXCEPTION(v)
                 THEN [locals EXCEPT !.pc = "raised", !.result = Outcome("raise", v)]
                 ELSE [locals EXCEPT !.pc = "done", !.result = Outcome("return", locals.len)]
    /\ UNCHANGED <<backend, fds>>

NextWrite ==
    \/ \E n \in 1..MaxLen : Backend_write_accepted(n)
    \/ Backend_write_blocked
    \/ Backend_write_failed
    \/ \E v \in ResumeValues : Backend_write_resume(v)
    \/ \E v \in ResumeValues : Backend_write_snoozed(v)

SpecWrite == InitWrite /\ [][NextWrite]_vars

\* C6: at every point of write and send the fd has accepted exactly the
\* bytes of s before the buffer pointer, in order, and the bytes from the
\* pointer on are the ones left; the operation returns only when the fd has
\* accepted all of s, and it returns len(s).
C6_WriteAll ==
    /\ fds.dest = SubSeq(locals.str, 1, locals.len - locals.left)
    /\ locals.buf = locals.len - locals.left + 1
    /\ locals.result.k = "return" =>
          /\ fds.dest = locals.str
          /\ locals.result.v = Len(locals.str)

\* A string of MaxLen bytes has been written in four syscalls or more, at
\* least one of them a would-block, and the operation has returned.
C6_Witness ==
    /\ locals.pc = "done"
    /\ locals.len = MaxLen
    /\ locals.awaited
    /\ locals.op_count >= 4

\* ------------------------------------------------------------------ Backend_read
\* One call of read, followed byte by byte. The source holds up to MaxAvail
\* bytes and then reports EOF; the buffer passed is nil or a string of up to
\* MaxBuf bytes; length is nil or 1..MaxRead.
MaxAvail == 5

MaxBuf == 2

MaxRead == 3

\* The capacity read starts with when length is nil (4096 in the code).
InitialCap == 2

\* A byte of string memory that nothing has written.
Junk == <<0, 0>>

\* The VALUE str as a result; its bytes are the first slen bytes of locals.str.
StrValue == <<"str", 0>>

Pad(mem, n) == mem \o [i \in 1..(n - Len(mem)) |-> Junk]

\* Mutant: a position outside the buffer is replaced by its start.
Backend_read_buf_pos_start(given, current_len, pos) ==
    IF given THEN (IF pos < 0 \/ pos > current_len THEN 0 ELSE pos) ELSE 0

\* if (str != Qnil) { if (buf_pos < 0 || buf_pos > current_len) buf_pos = current_len; }
\* else buf_pos = 0;
Backend_read_buf_pos(given, current_len, pos) ==
    IF given THEN (IF pos < 0 \/ pos > current_len THEN current_len ELSE pos) ELSE 0

\* io_setstrbuf(&str, len): a new string of len bytes when str is nil,
\* otherwise room for len bytes in str, whose length stays.
io_setstrbuf(given, old, len) ==
    IF given THEN [str |-> Pad(old, len), slen |-> Len(old)]
    ELSE [str |-> Pad(<<>>, len), slen |-> len]

\* io_set_read_length(str, n, shrinkable)
io_set_read_length(l, n) == [l EXCEPT !.slen = n]

\* The memory after read(2) has stored the bytes bs from offset buf on.
Stored(mem, buf, bs) ==
    [i \in 1..Len(mem) |-> IF i > buf /\ i <= buf + Len(bs) THEN bs[i - buf] ELSE mem[i]]

\* After the loop: the string gets its length, and nil is returned for total == 0.
Backend_read_finish(l) ==
    [io_set_read_length(l, l.buf_pos + l.total) EXCEPT
        !.pc = "done",
        !.result = Outcome("return", IF l.total = 0 THEN Nil ELSE StrValue)]

\* Mutant: with to_eof, a read of fewer bytes than asked for ends the loop.
Backend_read_advance_short(l) ==
    IF l.n = 0 THEN Backend_read_finish(l)
    ELSE LET t == [l EXCEPT !.total = @ + l.n]
         IN  IF t.total = t.len /\ t.read_to_eof /\ t.dynamic_len
             THEN [t EXCEPT !.slen = t.buf_pos + t.total,
                            !.str = Pad(SubSeq(t.str, 1, t.buf_pos + t.total),
                                        t.buf_pos + t.total + t.len),
                            !.buf = t.buf_pos + t.total,
                            !.len = t.len + t.len,
                            !.pc = "loop"]
             ELSE Backend_read_finish(t)

\* The else branch of the loop after the snooze, for the n bytes just read.
Backend_read_advance(l) ==
    IF l.n = 0 THEN Backend_read_finish(l)
    ELSE LET t == [l EXCEPT !.total = @ + l.n]
         IN  IF ~t.read_to_eof THEN Backend_read_finish(t)
             ELSE IF t.total = t.len
             THEN IF ~t.dynamic_len THEN Backend_read_finish(t)
                  ELSE \* rb_str_resize, rb_str_modify_expand, buf, len += len
                       [t EXCEPT !.slen = t.buf_pos + t.total,
                                 !.str = Pad(SubSeq(t.str, 1, t.buf_pos + t.total),
                                             t.buf_pos + t.total + t.len),
                                 !.buf = t.buf_pos + t.total,
                                 !.len = t.len + t.len,
                                 !.pc = "loop"]
             ELSE [t EXCEPT !.buf = @ + l.n, !.pc = "loop"]

InitRead ==
    /\ InitAlone
    /\ \E given \in BOOLEAN, m \in 0..MaxBuf, pos \in (-1)..(MaxBuf + 1),
          length \in 0..MaxRead, to_eof \in BOOLEAN, avail \in 0..MaxAvail :
          /\ ~given => m = 0
          /\ LET dynamic_len == length = 0   \* 0 stands for a nil length
                 len == IF dynamic_len THEN InitialCap ELSE length
                 buf_pos == Backend_read_buf_pos(given, m, pos)
                 b == io_setstrbuf(given, Str(2, m), buf_pos + len)
             IN  /\ locals = [fn |-> "read", given |-> given, old |-> Str(2, m), pos |-> pos,
                              dynamic_len |-> dynamic_len, len |-> len, buf_pos |-> buf_pos,
                              str |-> b.str, slen |-> b.slen, buf |-> buf_pos, total |-> 0,
                              read_to_eof |-> to_eof, n |-> 0, op_count |-> 0,
                              got |-> <<>>, eof |-> FALSE, overflow |-> FALSE,
                              short |-> FALSE,
                              pc |-> "loop", result |-> Outcome("none", None)]
                 /\ fds = [src |-> Str(1, avail)]

\* read(fd, buf, len - total) returns n > 0 bytes, or 0 at EOF (or when asked
\* for no byte); then backend_snooze.
Backend_read_returned(n) ==
    /\ locals.fn = "read"
    /\ locals.pc = "loop"
    /\ locals.op_count < MaxCalls
    /\ n <= locals.len - locals.total
    /\ n <= Len(fds.src)
    /\ n = 0 => (fds.src = <<>> \/ locals.len = locals.total)
    /\ LET bs == SubSeq(fds.src, 1, n)
       IN  /\ locals' = [locals EXCEPT !.op_count = @ + 1, !.n = n, !.pc = "snooze",
                                       !.str = Stored(@, locals.buf, bs),
                                       !.overflow = @ \/ locals.buf + n > Len(locals.str),
                                       !.got = @ \o bs,
                                       !.short = n > 0 /\ n < locals.len - locals.total,
                                       !.eof = @ \/ (n = 0 /\ fds.src = <<>>)]
           /\ fds' = [fds EXCEPT !.src = SubSeq(@, n + 1, Len(@))]
    /\ UNCHANGED backend

\* read fails with EAGAIN: libev_wait_fd_with_watcher.
Backend_read_blocked ==
    /\ locals.fn = "read"
    /\ locals.pc = "loop"
    /\ locals.op_count < MaxCalls
    /\ locals' = [locals EXCEPT !.op_count = @ + 1, !.pc = "wait"]
    /\ UNCHANGED <<backend, fds>>

\* read fails with another error: rb_syserr_fail.
Backend_read_failed ==
    /\ locals.fn = "read"
    /\ locals.pc = "loop"
    /\ locals.op_count < MaxCalls
    /\ locals' = [locals EXCEPT !.op_count = @ + 1, !.pc = "raised",
                                !.result = Outcome("raise", SysErr)]
    /\ UNCHANGED <<backend, fds>>

\* The fiber is resumed with v in libev_wait_fd_with_watcher.
Backend_read_resume(v) ==
    /\ locals.fn = "read"
    /\ locals.pc = "wait"
    /\ locals' = IF TEST_EXCEPTION(v)
                 THEN [locals EXCEPT !.pc = "raised", !.result = Outcome("raise", v)]
                 ELSE [locals EXCEPT !.pc = "loop"]
    /\ UNCHANGED <<backend, fds>>

\* The fiber is resumed with v in backend_snooze.
Backend_read_snoozed(v) ==
    /\ locals.fn = "read"
    /\ locals.pc = "snooze"
    /\ locals' = IF TEST_EXCEPTION(v)
                 THEN [locals EXCEPT !.pc = "raised", !.result = Outcome("raise", v)]
                 ELSE Backend_read_advance(locals)
    /\ UNCHANGED <<backend, fds>>

NextRead ==
    \/ \E n \in 0..MaxAvail : Backend_read_returned(n)
    \/ Backend_read_blocked
    \/ Backend_read_failed
    \/ \E v \in ResumeValues : Backend_read_resume(v)
    \/ \E v \in ResumeValues : Backend_read_snoozed(v)

SpecRead == InitRead /\ [][NextRead]_vars

\* The start position the claim gives: pos, or the end of the buffer when
\* pos is negative or beyond it.
C15_Start == IF locals.pos < 0 \/ locals.pos > Len(locals.old) THEN Len(locals.old) ELSE locals.pos

C26_StopsAtShortRead ==
    (locals.fn = "read" /\ locals.read_to_eof /\ locals.pc \in {"loop", "wait"}) =>
        ~locals.short

\* C26 amended: read with to_eof returns only after a read that returned no
\* byte (EOF) or, with a length given, after the read that completed length
\* bytes, never because a read returned fewer bytes than asked for; it then
\* returns all that was read.
C26_ReadToEof ==
    (locals.fn = "read" /\ locals.read_to_eof /\ locals.result.k = "return") =>
        /\ ~locals.short
        /\ locals.n = 0 \/ (~locals.dynamic_len /\ locals.total = locals.len)
        /\ locals.total = Len(locals.got)
        /\ locals.n = 0 => fds.src = <<>>

\* read with to_eof and length 3 has returned the two bytes of a source
\* that then was at EOF: it went on after reads of fewer than 3 bytes.
C26_Witness ==
    /\ locals.fn = "read"
    /\ locals.read_to_eof
    /\ ~locals.dynamic_len
    /\ locals.len = 3
    /\ locals.result = Outcome("return", StrValue)
    /\ Len(locals.got) = 2
    /\ locals.eof

\* C32: a read that ends by raising an exception resume value has taken no
\* byte from the fd: every byte a successful read(2) took is delivered to the
\* caller.
C32_NoByteLost ==
    (locals.fn = "read" /\ locals.pc = "raised" /\ locals.result.v # SysErr) =>
        locals.got = <<>>

\* ------------------------------------------------------------------ Backend_timer_loop
\* One call of timer_loop. Time is a whole number of clock steps; the timer
\* fires at its deadline or up to MaxLate steps later, and the caller's block
\* runs for up to MaxBlock steps.
MaxInterval == 2

MaxLate == 1

MaxBlock == 3

\* The clock is followed up to MaxTime.
MaxTime == 9

\* do { next_time += interval_d; } while (next_time <= now);
RECURSIVE Backend_timer_loop_advance(_, _, _)
Backend_timer_loop_advance(next_time, interval_d, now) ==
    LET t == next_time + interval_d
    IN  IF t <= now THEN Backend_timer_loop_advance(t, interval_d, now) ELSE t

InitTimer ==
    /\ InitAlone
    /\ \E interval_d \in 1..MaxInterval :
          locals = [fn |-> "timer_loop", interval_d |-> interval_d, next_time |-> 0,
                    now |-> 0, sleep_duration |-> 0, yields |-> 0, pc |-> "loop",
                    result |-> Outcome("none", None)]
    /\ fds = [clock |-> 1]

\* The top of the loop up to backend_await: now, next_time on the first
\* pass, the sleep duration, and the timer started.
Backend_timer_loop_sleep ==
    /\ locals.fn = "timer_loop"
    /\ locals.pc = "loop"
    /\ LET now == fds.clock
           next_time == IF locals.next_time = 0 THEN fds.clock + locals.interval_d
                        ELSE locals.next_time
           d == next_time - now
       IN  locals' = [locals EXCEPT !.now = now, !.next_time = next_time,
                                    !.sleep_duration = IF d < 0 THEN 0 ELSE d,
                                    !.pc = "wait"]
    /\ UNCHANGED <<backend, fds>>

\* The fiber is resumed with v, by the timer late steps after its deadline or
\* by an exception; a nil resume value leads to rb_yield.
Backend_timer_loop_resume(v, late) ==
    /\ locals.fn = "timer_loop"
    /\ locals.pc = "wait"
    /\ locals.now + locals.sleep_duration + late <= MaxTime
    /\ fds' = [fds EXCEPT !.clock = locals.now + locals.sleep_duration + late]
    /\ locals' = IF TEST_EXCEPTION(v)
                 THEN [locals EXCEPT !.pc = "raised", !.result = Outcome("raise", v)]
                 ELSE [locals EXCEPT !.pc = "yield", !.yields = @ + 1]
    /\ UNCHANGED backend

\* The block returns after dt steps; next_time is advanced.
Backend_timer_loop_yielded(dt) ==
    /\ locals.fn = "timer_loop"
    /\ locals.pc = "yield"
    /\ fds.clock + dt <= MaxTime
    /\ fds' = [fds EXCEPT !.clock = @ + dt]
    /\ locals' = [locals EXCEPT
                    !.next_time = Backend_timer_loop_advance(@, locals.interval_d, locals.now),
                    !.pc = "loop"]
    /\ UNCHANGED backend

NextTimer ==
    \/ Backend_timer_loop_sleep
    \/ \E v \in ResumeValues, late \in 0..MaxLate : Backend_timer_loop_resume(v, late)
    \/ \E dt \in 0..MaxBlock : Backend_timer_loop_yielded(dt)

SpecTimer == InitTimer /\ [][NextTimer]_vars

\* C18: after each iteration (sleep, then the caller's block) next_time has
\* been advanced until it is strictly greater than the current time at that
\* point, so the deadline of the next sleep is not in the past.
C18_DeadlineAhead ==
    (locals.fn = "timer_loop" /\ locals.pc = "loop" /\ locals.yields > 0) =>
        locals.next_time > fds.clock

\* ------------------------------------------------------------------ Backend_chain
\* One call of chain. An op is its type and the length of its array (the
\* type and its arguments); the write, send or splice it calls is followed
\* from its start to its return or raise.
MaxOps == 3

\* An op returns a count of 0..MaxResult.
MaxResult == 1

OpTypes == {"write", "send", "splice", "read"}

OpLens == 2..4

Ops == [type : OpTypes, len : OpLens]

RuntimeError == <<"exc", 1>>

\* Mutant: the type alone is tested.
Backend_chain_dispatch_type(o) ==
    IF o.type \in {"write", "send", "splice"} THEN o.type ELSE "invalid"

\* The function the if/else chain selects for an op.
Backend_chain_dispatch(o) ==
    IF o.type = "write" /\ o.len = 3 THEN "write"
    ELSE IF o.type = "send" /\ o.len = 4 THEN "send"
    ELSE IF o.type = "splice" /\ o.len = 4 THEN "splice"
    ELSE "invalid"

InitChain ==
    /\ InitAlone
    /\ \E argc \in 0..MaxOps : \E argv \in [1..argc -> Ops] :
          locals = [fn |-> "chain", argv |-> argv, i |-> 1, result |-> Nil,
                    pc |-> "entry", calls |-> <<>>, out |-> Outcome("none", None)]
    /\ fds = [clock |-> 0]

\* if (argc == 0) return result;
Backend_chain_entry ==
    /\ locals.fn = "chain"
    /\ locals.pc = "entry"
    /\ locals' = IF Len(locals.argv) = 0
                 THEN [locals EXCEPT !.pc = "done", !.out = Outcome("return", locals.result)]
                 ELSE [locals EXCEPT !.pc = "for"]
    /\ UNCHANGED <<backend, fds>>

\* The loop test, and the body up to the call of the op's function.
Backend_chain_for ==
    /\ locals.fn = "chain"
    /\ locals.pc = "for"
    /\ locals' =
          IF locals.i > Len(locals.argv)
          THEN [locals EXCEPT !.pc = "done", !.out = Outcome("return", locals.result)]
          ELSE LET fn == Backend_chain_dispatch(locals.argv[locals.i])
               IN  IF fn = "invalid"
                   THEN [locals EXCEPT !.pc = "done", !.out = Outcome("raise", RuntimeError)]
                   ELSE [locals EXCEPT !.pc = "call",
                                       !.calls = Append(@, <<"call", locals.i, fn>>)]
    /\ UNCHANGED <<backend, fds>>

\* The op's function returns n.
Backend_chain_op_return(n) ==
    /\ locals.fn = "chain"
    /\ locals.pc = "call"
    /\ locals' = [locals EXCEPT !.result = <<"int", n>>, !.i = @ + 1, !.pc = "for",
                                !.calls = Append(@, <<"return", locals.i, n>>)]
    /\ UNCHANGED <<backend, fds>>

\* The op's function raises.
Backend_chain_op_raise(e) ==
    /\ locals.fn = "chain"
    /\ locals.pc = "call"
    /\ locals' = [locals EXCEPT !.pc = "done", !.out = Outcome("raise", e),
                                !.calls = Append(@, <<"raise", locals.i, 0>>)]
    /\ UNCHANGED <<backend, fds>>

NextChain ==
    \/ Backend_chain_entry
    \/ Backend_chain_for
    \/ \E n \in 0..MaxResult : Backend_chain_op_return(n)
    \/ \E e \in {SysErr, Cancel} : Backend_chain_op_raise(e)

SpecChain == InitChain /\ [][NextChain]_vars

\* An op the claim accepts: write with 2 arguments, send with 3, splice
\* with 3.
C19_Accepted(o) ==
    \/ o.type = "write" /\ o.len - 1 = 2
    \/ o.type \in {"send", "splice"} /\ o.len - 1 = 3

\* The ops before the first one that is not accepted.
C19_Runnable ==
    {j \in 1..Len(locals.argv) :
        \A k \in 1..j : C19_Accepted(locals.argv[k])}

\* C19: chain runs the ops in argument order, each returning before the next
\* is called, and returns the last op's result, nil without ops; an op that is
\* not write with 2 arguments, send with 3 or splice with 3 raises an error and
\* no op after it is called.
C19_Chain ==
    locals.fn = "chain" =>
        LET c == locals.calls
            n == Len(locals.argv)
        IN  /\ \A k \in 1..Len(c) :
                  /\ c[k][2] = (k + 1) \div 2
                  /\ c[k][2] \in C19_Runnable
                  /\ (k % 2 = 1) =>
                        c[k] = <<"call", c[k][2], locals.argv[c[k][2]].type>>
                  /\ (k % 2 = 0) => c[k][1] \in {"return", "raise"}
                  /\ (c[k][1] = "raise") => k = Len(c)
            /\ (locals.pc = "done" /\ locals.out.k = "return") =>
                  /\ Len(c) = 2 * n
                  /\ locals.out.v = IF n = 0 THEN Nil ELSE <<"int", c[2 * n][3]>>
            /\ (locals.pc = "done" /\ C19_Runnable # 1..n
                  /\ \A k \in 1..Len(c) : c[k][1] # "raise") =>
                  /\ locals.out = Outcome("raise", RuntimeError)
                  /\ Len(c) = 2 * Cardinality(C19_Runnable)

\* chain has called two ops and raised for the third, which is not accepted.
C19_Witness ==
    /\ locals.fn = "chain"
    /\ locals.pc = "done"
    /\ Len(locals.argv) = 3
    /\ C19_Runnable = {1, 2}
    /\ Len(locals.calls) = 4
    /\ locals.calls[4][1] = "return"
    /\ locals.out = Outcome("raise", RuntimeError)

\* ------------------------------------------------------------------ Backend_writev
\* One call of writev with up to MaxStrs strings of up to MaxStrLen bytes.
MaxStrs == 3

MaxStrLen == 2

RECURSIVE Concat(_)
Concat(ss) == IF ss = <<>> THEN <<>> ELSE Head(ss) \o Concat(Tail(ss))

\* The bytes an iovec entry describes.
IovBytes(e) == [i \in 1..e.len |-> <<e.base[1], e.base[2] + i - 1>>]

\* The bytes writev(fd, iov_ptr, iov_count) is asked to write.
Gather(l) ==
    Concat([i \in 1..l.iov_count |-> IovBytes(l.iov[l.iov_ptr + i - 1])])

\* Mutant: the head entry is shortened, its base is not moved.
Backend_writev_split_len(e, n) == [base |-> e.base, len |-> e.len - n]

\* iov_ptr[0].iov_base += n; iov_ptr[0].iov_len -= n;
Backend_writev_split(e, n) == [base |-> <<e.base[1], e.base[2] + n>>, len |-> e.len - n]

\* while (n > 0): split the head entry, or drop it and go on with the rest of n.
RECURSIVE Backend_writev_advance(_, _)
Backend_writev_advance(l, n) ==
    IF n > 0
    THEN IF n < l.iov[l.iov_ptr].len
         THEN [l EXCEPT !.iov[l.iov_ptr] = Backend_writev_split(@, n)]
         ELSE Backend_writev_advance([l EXCEPT !.iov_ptr = @ + 1, !.iov_count = @ - 1],
                                     n - l.iov[l.iov_ptr].len)
    ELSE l

\* After the loop: snooze unless the operation has awaited, then return total_written.
Backend_writev_finish(l) ==
    IF l.awaited THEN [l EXCEPT !.pc = "done", !.result = Outcome("return", l.total_written)]
    ELSE [l EXCEPT !.pc = "snooze"]

\* The else branch of the loop, for a writev that returned n.
Backend_writev_written(l, n) ==
    LET w == [l EXCEPT !.total_written = @ + n]
    IN  IF w.total_written = w.total_length THEN Backend_writev_finish(w)
        ELSE Backend_writev_advance(w, n)

InitWritev ==
    /\ InitAlone
    /\ \E argc \in 0..MaxStrs : \E lens \in [1..argc -> 0..MaxStrLen] :
          locals = [fn |-> "writev", strs |-> [j \in 1..argc |-> Str(j, lens[j])],
                    iov |-> [j \in 1..argc |-> [base |-> <<j, 1>>, len |-> lens[j]]],
                    iov_ptr |-> 1, iov_count |-> argc,
                    total_length |-> Len(Concat([j \in 1..argc |-> Str(j, lens[j])])),
                    total_written |-> 0, awaited |-> FALSE, op_count |-> 0,
                    pc |-> "loop", result |-> Outcome("none", None)]
    /\ fds = [dest |-> <<>>]

\* writev accepts the first n of the bytes it is given (all of them when there are none).
Backend_writev_accepted(n) ==
    /\ locals.fn = "writev"
    /\ locals.pc = "loop"
    /\ locals.op_count < MaxCalls
    /\ n <= Len(Gather(locals))
    /\ n = 0 => Gather(locals) = <<>>
    /\ fds' = [fds EXCEPT !.dest = @ \o SubSeq(Gather(locals), 1, n)]
    /\ locals' = Backend_writev_written([locals EXCEPT !.op_count = @ + 1], n)
    /\ UNCHANGED backend

\* writev fails with EAGAIN: libev_wait_fd_with_watcher.
Backend_writev_blocked ==
    /\ locals.fn = "writev"
    /\ locals.pc = "loop"
    /\ locals.op_count < MaxCalls
    /\ locals' = [locals EXCEPT !.op_count = @ + 1, !.pc = "wait", !.awaited = TRUE]
    /\ UNCHANGED <<backend, fds>>

\* writev fails with another error: free(iov); rb_syserr_fail.
Backend_writev_failed ==
    /\ locals.fn = "writev"
    /\ locals.pc = "loop"
    /\ locals.op_count < MaxCalls
    /\ locals' = [locals EXCEPT !.op_count = @ + 1, !.pc = "raised",
                                !.result = Outcome("raise", SysErr)]
    /\ UNCHANGED <<backend, fds>>

\* The fiber is resumed with v in libev_wait_fd_with_watcher.
Backend_writev_resume(v) ==
    /\ locals.fn = "writev"
    /\ locals.pc = "wait"
    /\ locals' = IF TEST_EXCEPTION(v)
                 THEN [locals EXCEPT !.pc = "raised", !.result = Outcome("raise", v)]
                 ELSE [locals EXCEPT !.pc = "loop"]
    /\ UNCHANGED <<backend, fds>>

\* The fiber is resumed with v in backend_snooze.
Backend_writev_snoozed(v) ==
    /\ locals.fn = "writev"
    /\ locals.pc = "snooze"
    /\ locals' = IF TEST_EXCEPTION(v)
                 THEN [locals EXCEPT !.pc = "raised", !.result = Outcome("raise", v)]
                 ELSE [locals EXCEPT !.pc = "done",
                                     !.result = Outcome("return", locals.total_written)]
    /\ UNCHANGED <<backend, fds>>

NextWritev ==
    \/ \E n \in 0..(MaxStrs * MaxStrLen) : Backend_writev_accepted(n)
    \/ Backend_writev_blocked
    \/ Backend_writev_failed
    \/ \E v \in ResumeValues : Backend_writev_resume(v)
    \/ \E v \in ResumeValues : Backend_writev_snoozed(v)

SpecWritev == InitWritev /\ [][NextWritev]_vars

\* C7: while writev loops, the bytes the fd has accepted followed by the
\* bytes the remaining iovec describes are concat(s1, s2, ...), and
\* total_written counts the accepted bytes; when writev returns, the fd has
\* accepted exactly concat(s1, s2, ...) and the result is the sum of the
\* lengths.
C7_WritevAll ==
    /\ locals.pc \in {"loop", "wait"} =>
          /\ fds.dest \o Gather(locals) = Concat(locals.strs)
          /\ locals.total_written = Len(fds.dest)
          /\ locals.iov_ptr + locals.iov_count = Len(locals.strs) + 1
    /\ locals.result.k = "return" =>
          /\ fds.dest = Concat(locals.strs)
          /\ locals.result.v = Len(Concat(locals.strs))

\* writev of MaxStrs strings has returned after a would-block and after a
\* partial result that ended inside a string, whose entry was split.
C7_Witness ==
    /\ locals.pc = "done"
    /\ locals.awaited
    /\ Len(locals.strs) = MaxStrs
    /\ \E i \in DOMAIN locals.iov : locals.iov[i].base[2] > 1
    /\ locals.iov_ptr > 1

\* ------------------------------------------------------------------ Backend_splice_chunks
\* One call of splice_chunks, in the Linux build (splice(2)) and in the
\* other build (read and write through a buffer), with a source of up to
\* MaxSrc bytes and a pipe that holds PipeCap bytes.
MaxSrc == 3

MaxChunk == 3

PipeCap == 2

\* An operation awaits at most MaxWaits times.
MaxWaits == 2

\* A byte is <<the string it belongs to, "s" (a string's byte), its index>>, or
\* <<the string, "f", n>> for the one byte of the string a callable returns
\* for a chunk of n bytes.
Bytes(name, n) == [i \in 1..n |-> <<name, "s", i>>]

\* prefix and postfix, when given.
FixStr(name) == Bytes(name, 1)

\* chunk_prefix and chunk_postfix: a string, or a callable applied to chunk_len.
ChunkStr(name, kind, chunk_len) ==
    IF kind = "str" THEN Bytes(name, 2) ELSE <<<<name, "f", chunk_len>>>>

Min(a, b) == IF a < b THEN a ELSE b

\* The end of the function and its labels syscallerror and error: both ends
\* of the pipe are closed, then the function returns or raises.
Backend_splice_chunks_exit(l, o) ==
    [l EXCEPT !.stage = IF o.k = "return" THEN "done" ELSE "raised",
              !.result = o, !.pipefd = {}]

\* An exception raised by a callable chunk_prefix or chunk_postfix leaves
\* the function from inside rb_funcall.
Backend_splice_chunks_unwound(l, x) ==
    [l EXCEPT !.stage = "raised", !.result = Outcome("raise", x)]

\* if (watcher.ctx.fiber == Qnil) snooze; return total.
Backend_splice_chunks_finish(l) ==
    IF l.awaited THEN Backend_splice_chunks_exit(l, Outcome("return", l.total))
    ELSE [l EXCEPT !.stage = "snooze"]

\* if (postfix != Qnil) splice_chunks_write(postfix)
Backend_splice_chunks_postfix(l) ==
    IF l.postfix THEN [l EXCEPT !.stage = "postfix", !.str = FixStr("postfix")]
    ELSE Backend_splice_chunks_finish(l)

\* backend->base.op_count++ at the head of splice_chunks_splice, before its
\* loop.
splice_chunks_splice(l, stage) == [l EXCEPT !.stage = stage, !.op_count = @ + 1]

\* The head of the while (1) loop: splice_chunks_splice(src, pipefd[1], maxlen).
Backend_splice_chunks_loop(l) == splice_chunks_splice(l, "splice_in")

\* if (chunk_postfix != Qnil) splice_chunks_write(chunk_postfix or its value)
Backend_splice_chunks_chunk_postfix(l) ==
    IF l.chunk_postfix # "nil"
    THEN [l EXCEPT !.stage = "chunk_postfix", !.calling = (l.chunk_postfix = "fn"),
                   !.str = ChunkStr("chunk_postfix", l.chunk_postfix, l.chunk_len)]
    ELSE Backend_splice_chunks_loop(l)

\* Mutant: the chunk is taken to be drained after one transfer.
Backend_splice_chunks_drained_once(l, len) ==
    Backend_splice_chunks_chunk_postfix([l EXCEPT !.left = @ - len])

\* left -= len; while (left > 0)
Backend_splice_chunks_drained(l, len) ==
    LET m == [l EXCEPT !.left = @ - len]
    IN  IF m.left > 0 THEN splice_chunks_splice(m, "drain")
        ELSE Backend_splice_chunks_chunk_postfix(m)

\* int left = chunk_len; while (left > 0)
Backend_splice_chunks_drain(l) == Backend_splice_chunks_drained([l EXCEPT !.left = l.chunk_len], 0)

\* if (chunk_prefix != Qnil) splice_chunks_write(chunk_prefix or its value)
Backend_splice_chunks_chunk_prefix(l) ==
    IF l.chunk_prefix # "nil"
    THEN [l EXCEPT !.stage = "chunk_prefix", !.calling = (l.chunk_prefix = "fn"),
                   !.str = ChunkStr("chunk_prefix", l.chunk_prefix, l.chunk_len)]
    ELSE Backend_splice_chunks_drain(l)

\* if (chunk_len == 0) break; total += chunk_len;
Backend_splice_chunks_chunk(l, n) ==
    IF n = 0 THEN Backend_splice_chunks_postfix([l EXCEPT !.chunk_len = 0])
    ELSE Backend_splice_chunks_chunk_prefix(
            [l EXCEPT !.chunk_len = n, !.total = @ + n, !.chunks = Append(@, n)])

\* if (prefix != Qnil) splice_chunks_write(prefix)
Backend_splice_chunks_prefix(l) ==
    IF l.prefix THEN [l EXCEPT !.stage = "prefix", !.str = FixStr("prefix")]
    ELSE Backend_splice_chunks_loop(l)

\* What follows a splice_chunks_write that returned 0.
Backend_splice_chunks_written(l) ==
    CASE l.stage = "prefix" -> Backend_splice_chunks_loop(l)
      [] l.stage = "chunk_prefix" -> Backend_splice_chunks_drain(l)
      [] l.stage = "chunk_postfix" -> Backend_splice_chunks_loop(l)
      [] OTHER -> Backend_splice_chunks_finish(l)

InitChunks ==
    /\ InitAlone
    /\ \E linux, prefix, postfix \in BOOLEAN, maxlen \in 1..MaxChunk, n \in 0..MaxSrc,
          chunk_prefix, chunk_postfix \in {"nil", "str", "fn"} :
          /\ locals = Backend_splice_chunks_prefix(
                         [fn |-> "splice_chunks", linux |-> linux, maxlen |-> maxlen,
                          prefix |-> prefix, postfix |-> postfix,
                          chunk_prefix |-> chunk_prefix, chunk_postfix |-> chunk_postfix,
                          srclen |-> n, stage |-> "start", pipefd |-> {0, 1},
                          calling |-> FALSE, waiting |-> FALSE, str |-> <<>>,
                          buf |-> <<>>, len |-> 0, chunk_len |-> 0, left |-> 0, total |-> 0,
                          awaited |-> FALSE, waits |-> 0, chunks |-> <<>>,
                          err |-> 0, errno |-> 0, op_count |-> 0, attempts |-> 0,
                          result |-> Outcome("none", None)])
          /\ fds = [src |-> Bytes("src", n), pipe |-> <<>>, dest |-> <<>>]

\* The stages that make a syscall.
ChunkStages == {"prefix", "chunk_prefix", "chunk_postfix", "postfix",
                "splice_in", "fill", "drain", "flush"}

AtSyscall(stages) ==
    /\ locals.fn = "splice_chunks"
    /\ locals.stage \in stages
    /\ ~locals.waiting
    /\ ~locals.calling

\* splice_chunks_write: write(fd, buf, left) accepts n bytes.
splice_chunks_write(n) ==
    /\ AtSyscall({"prefix", "chunk_prefix", "chunk_postfix", "postfix"})
    /\ n \in 1..Len(locals.str)
    /\ fds' = [fds EXCEPT !.dest = @ \o SubSeq(locals.str, 1, n)]
    /\ LET l == [locals EXCEPT !.str = SubSeq(@, n + 1, Len(@)),
                               !.op_count = @ + 1, !.attempts = @ + 1]
       IN  locals' = IF l.str = <<>> THEN Backend_splice_chunks_written(l) ELSE l
    /\ UNCHANGED backend

\* splice_chunks_splice, Linux: splice(src, pipefd[1], maxlen) moves n bytes; 0 at EOF.
splice_chunks_splice_in(n) ==
    /\ AtSyscall({"splice_in"})
    /\ locals.linux
    /\ n <= Min(locals.maxlen, Min(Len(fds.src), PipeCap - Len(fds.pipe)))
    /\ n = 0 => fds.src = <<>>
    /\ fds' = [fds EXCEPT !.src = SubSeq(@, n + 1, Len(@)),
                          !.pipe = @ \o SubSeq(fds.src, 1, n)]
    /\ locals' = Backend_splice_chunks_chunk([locals EXCEPT !.attempts = @ + 1], n)
    /\ UNCHANGED backend

\* splice_chunks_splice, other builds: read(src, buf, maxlen) returns n bytes; 0 at EOF.
splice_chunks_read_in(n) ==
    /\ AtSyscall({"splice_in"})
    /\ ~locals.linux
    /\ n <= Min(locals.maxlen, Len(fds.src))
    /\ n = 0 => fds.src = <<>>
    /\ fds' = [fds EXCEPT !.src = SubSeq(@, n + 1, Len(@))]
    /\ LET l == [locals EXCEPT !.attempts = @ + 1, !.op_count = @ + 1]
       IN  locals' = IF n = 0 THEN Backend_splice_chunks_chunk(l, 0)
                     ELSE [l EXCEPT !.stage = "fill", !.len = n,
                                    !.buf = SubSeq(fds.src, 1, n)]
    /\ UNCHANGED backend

\* ... then write(pipefd[1], ptr, left) accepts n bytes.
splice_chunks_fill(n) ==
    /\ AtSyscall({"fill"})
    /\ n \in 1..Min(Len(locals.buf), PipeCap - Len(fds.pipe))
    /\ fds' = [fds EXCEPT !.pipe = @ \o SubSeq(locals.buf, 1, n)]
    /\ LET l == [locals EXCEPT !.buf = SubSeq(@, n + 1, Len(@)), !.attempts = @ + 1]
       IN  locals' = IF l.buf = <<>> THEN Backend_splice_chunks_chunk(l, l.len) ELSE l
    /\ UNCHANGED backend

\* splice_chunks_splice, Linux: splice(pipefd[0], dest, left) moves n bytes.
splice_chunks_splice_out(n) ==
    /\ AtSyscall({"drain"})
    /\ locals.linux
    /\ n \in 1..Min(locals.left, Len(fds.pipe))
    /\ fds' = [fds EXCEPT !.pipe = SubSeq(@, n + 1, Len(@)),
                          !.dest = @ \o SubSeq(fds.pipe, 1, n)]
    /\ locals' = Backend_splice_chunks_drained([locals EXCEPT !.attempts = @ + 1], n)
    /\ UNCHANGED backend

\* splice_chunks_splice, other builds: read(pipefd[0], buf, left) returns n bytes.
splice_chunks_read_out(n) ==
    /\ AtSyscall({"drain"})
    /\ ~locals.linux
    /\ n \in 1..Min(locals.left, Len(fds.pipe))
    /\ fds' = [fds EXCEPT !.pipe = SubSeq(@, n + 1, Len(@))]
    /\ locals' = [locals EXCEPT !.stage = "flush", !.len = n, !.buf = SubSeq(fds.pipe, 1, n),
                                !.attempts = @ + 1, !.op_count = @ + 1]
    /\ UNCHANGED backend

\* ... then write(dest, ptr, left) accepts n bytes.
splice_chunks_flush(n) ==
    /\ AtSyscall({"flush"})
    /\ n \in 1..Len(locals.buf)
    /\ fds' = [fds EXCEPT !.dest = @ \o SubSeq(locals.buf, 1, n)]
    /\ LET l == [locals EXCEPT !.buf = SubSeq(@, n + 1, Len(@)), !.attempts = @ + 1]
       IN  locals' = IF l.buf = <<>> THEN Backend_splice_chunks_drained(l, l.len) ELSE l
    /\ UNCHANGED backend

\* A syscall that fails: in splice_chunks_write op_count++ stands in the
\* loop, before each write; in splice_chunks_splice it stands before the loop.
splice_chunks_attempt(l) ==
    [l EXCEPT !.attempts = @ + 1,
              !.op_count = IF l.stage \in {"prefix", "chunk_prefix", "chunk_postfix", "postfix"}
                           THEN @ + 1 ELSE @]

\* A syscall fails with EAGAIN: libev_wait_rw_fd_with_watcher.
splice_chunks_blocked ==
    /\ AtSyscall(ChunkStages)
    /\ locals.waits < MaxWaits
    /\ locals' = splice_chunks_attempt(
                    [locals EXCEPT !.waiting = TRUE, !.awaited = TRUE, !.waits = @ + 1])
    /\ UNCHANGED <<backend, fds>>

\* A syscall fails with another error: goto syscallerror.
\* The err that receives the errno is the function's own in the write of
\* prefix and in the splice steps, and a second `int err`, declared in the
\* block, in the writes of chunk_prefix, chunk_postfix and postfix;
\* rb_syserr_fail at syscallerror reads the function's own.
splice_chunks_failed(e) ==
    /\ AtSyscall(ChunkStages)
    /\ ~WouldBlock("splice_chunks", e)
    /\ LET a == splice_chunks_attempt(locals)
           l == IF locals.stage \in {"chunk_prefix", "chunk_postfix", "postfix"}
                THEN [a EXCEPT !.errno = ErrnoCode(e)]
                ELSE [a EXCEPT !.errno = ErrnoCode(e), !.err = ErrnoCode(e)]
       IN  locals' = Backend_splice_chunks_exit(l, Outcome("raise", <<"syserr", l.err>>))
    /\ UNCHANGED <<backend, fds>>

\* rb_funcall(chunk_prefix or chunk_postfix, ID_call, 1, chunk_len_value)
\* returns the string to write.
splice_chunks_called ==
    /\ locals.fn = "splice_chunks"
    /\ locals.calling
    /\ locals' = [locals EXCEPT !.calling = FALSE]
    /\ UNCHANGED <<backend, fds>>

\* The callable raises.
splice_chunks_call_raised ==
    /\ locals.fn = "splice_chunks"
    /\ locals.calling
    /\ locals' = Backend_splice_chunks_unwound([locals EXCEPT !.calling = FALSE], Cancel)
    /\ UNCHANGED <<backend, fds>>

\* The fiber is resumed with v in libev_wait_rw_fd_with_watcher.
splice_chunks_resume(v) ==
    /\ locals.fn = "splice_chunks"
    /\ locals.waiting
    /\ locals' = IF TEST_EXCEPTION(v)
                 THEN Backend_splice_chunks_exit([locals EXCEPT !.waiting = FALSE],
                                                 Outcome("raise", v))
                 ELSE [locals EXCEPT !.waiting = FALSE]
    /\ UNCHANGED <<backend, fds>>

\* The fiber is resumed with v in backend_snooze.
splice_chunks_snoozed(v) ==
    /\ locals.fn = "splice_chunks"
    /\ locals.stage = "snooze"
    /\ locals' = IF TEST_EXCEPTION(v)
                 THEN Backend_splice_chunks_exit(locals, Outcome("raise", v))
                 ELSE Backend_splice_chunks_exit(locals, Outcome("return", locals.total))
    /\ UNCHANGED <<backend, fds>>

NextChunks ==
    \/ \E n \in 1..2 : splice_chunks_write(n)
    \/ \E n \in 0..MaxChunk : splice_chunks_splice_in(n)
    \/ \E n \in 0..MaxChunk : splice_chunks_read_in(n)
    \/ \E n \in 1..MaxChunk : splice_chunks_fill(n)
    \/ \E n \in 1..MaxChunk : splice_chunks_splice_out(n)
    \/ \E n \in 1..MaxChunk : splice_chunks_read_out(n)
    \/ \E n \in 1..MaxChunk : splice_chunks_flush(n)
    \/ splice_chunks_blocked
    \/ \E e \in Errnos : splice_chunks_failed(e)
    \/ splice_chunks_called
    \/ splice_chunks_call_raised
    \/ \E v \in ResumeValues : splice_chunks_resume(v)
    \/ \E v \in ResumeValues : splice_chunks_snoozed(v)

SpecChunks == InitChunks /\ [][NextChunks]_vars

\* The stream dest has to receive for the chunks taken so far: prefix, each
\* chunk between its chunk_prefix and chunk_postfix, postfix.
RECURSIVE Framed(_, _, _)
Framed(l, i, off) ==
    IF i > Len(l.chunks) THEN <<>>
    ELSE (IF l.chunk_prefix = "nil" THEN <<>>
          ELSE ChunkStr("chunk_prefix", l.chunk_prefix, l.chunks[i]))
         \o [k \in 1..l.chunks[i] |-> <<"src", "s", off + k>>]
         \o (IF l.chunk_postfix = "nil" THEN <<>>
             ELSE ChunkStr("chunk_postfix", l.chunk_postfix, l.chunks[i]))
         \o Framed(l, i + 1, off + l.chunks[i])

Expected(l) ==
    (IF l.prefix THEN FixStr("prefix") ELSE <<>>) \o Framed(l, 1, 0)
    \o (IF l.postfix THEN FixStr("postfix") ELSE <<>>)

IsPrefix(a, b) == Len(a) <= Len(b) /\ a = SubSeq(b, 1, Len(a))

\* C10: every chunk is 1..chunk_size bytes long; what dest has received is at
\* every moment the beginning of prefix, the framed chunks in source order,
\* postfix; and when splice_chunks returns, dest has received all of it,
\* the source is at EOF, the pipe is empty and the result is the number of
\* source bytes.
C10_SpliceChunks ==
    /\ \A i \in DOMAIN locals.chunks : locals.chunks[i] \in 1..locals.maxlen
    /\ IsPrefix(fds.dest, Expected(locals))
    /\ locals.result.k = "return" =>
          /\ fds.dest = Expected(locals)
          /\ fds.src = <<>>
          /\ fds.pipe = <<>>
          /\ locals.result.v = locals.srclen

\* C11: when splice_chunks has exited, by returning or by raising, neither
\* end of the pipe it created is open.
C11_PipeClosed ==
    locals.fn = "splice_chunks" /\ locals.stage \in {"done", "raised"} => locals.pipefd = {}

\* C24: when a write of prefix, chunk_prefix, chunk_postfix or postfix, or a
\* splice step, fails with an errno other than EWOULDBLOCK/EAGAIN, the syscall
\* failure raised by splice_chunks carries that errno.
C24_Errno ==
    (locals.fn = "splice_chunks" /\ locals.errno # 0) =>
        locals.result = Outcome("raise", <<"syserr", locals.errno>>)

\* C28: op_count is incremented exactly once before each attempt of a
\* syscall, retries after a would-block included: when splice_chunks has
\* exited, op_count has grown by the number of syscalls it attempted.
C28_OpCount ==
    (locals.fn = "splice_chunks" /\ locals.stage \in {"done", "raised"}) =>
        locals.op_count = locals.attempts

\* splice_chunks has returned after two chunks or more, at least one
\* would-block, with a prefix, a postfix, a callable chunk_prefix and a
\* string chunk_postfix.
C10_Witness ==
    /\ locals.stage = "done"
    /\ Len(locals.chunks) >= 2
    /\ locals.waits >= 1
    /\ locals.prefix /\ locals.postfix
    /\ locals.chunk_prefix = "fn" /\ locals.chunk_postfix = "str"

\* ------------------------------------------------------------------ Backend_splice, Backend_splice_to_eof
\* One call of splice or splice_to_eof, in the Linux build (splice(2)) and in
\* the other build (read into a buffer of maxlen bytes, write from it), with
\* a source of up to MaxSrc bytes. xfers keeps the byte counts the source
\* syscalls returned.
SpliceFns == {"splice", "splice_to_eof"}

\* Mutant: left is decreased and the pointer into the buffer is not moved.
Backend_splice_advance_left(buf, n) == SubSeq(buf, 1, Len(buf) - n)

\* buf += n; left -= n (ptr += n in splice_to_eof): the bytes still to write.
Backend_splice_advance(buf, n) == SubSeq(buf, n + 1, Len(buf))

\* After the loops: backend_snooze when the op never awaited, then return.
Backend_splice_finish(l) ==
    IF l.awaited
    THEN [l EXCEPT !.stage = "done",
                   !.result = Outcome("return", IF l.linux /\ l.fn = "splice"
                                                THEN l.len ELSE l.total)]
    ELSE [l EXCEPT !.stage = "snooze"]

InitSplice ==
    /\ InitAlone
    /\ \E fn \in SpliceFns, linux \in BOOLEAN, maxlen \in 1..MaxChunk, n \in 0..MaxSrc :
          /\ locals = [fn |-> fn, linux |-> linux, maxlen |-> maxlen, srclen |-> n,
                       stage |-> "source", waiting |-> FALSE, awaited |-> FALSE,
                       waits |-> 0, buf |-> <<>>, len |-> 0, total |-> 0,
                       io |-> {}, xfers |-> <<>>, result |-> Outcome("none", None)]
          /\ fds = [src |-> Bytes("src", n), dest |-> <<>>]

SpliceAt(stages) ==
    /\ locals.fn \in SpliceFns
    /\ locals.stage \in stages
    /\ ~locals.waiting

\* A syscall on the source moves or reads n bytes: 0 at EOF only.
SourceGives(n) ==
    /\ n \in 0..Min(locals.maxlen, Len(fds.src))
    /\ n = 0 <=> fds.src = <<>>

\* Linux: splice(src, dest, maxlen) returns n.
Backend_splice_splice(n) ==
    /\ SpliceAt({"source"})
    /\ locals.linux
    /\ SourceGives(n)
    /\ fds' = [fds EXCEPT !.src = SubSeq(@, n + 1, Len(@)),
                          !.dest = @ \o SubSeq(fds.src, 1, n)]
    /\ LET l == [locals EXCEPT !.len = n,
                               !.xfers = IF n = 0 THEN @ ELSE Append(@, n)]
       IN  locals' = IF locals.fn = "splice" \/ n = 0
                     THEN Backend_splice_finish(l)
                     ELSE [l EXCEPT !.total = @ + n]
    /\ UNCHANGED backend

\* Other builds: read(src, buf, len) returns n.
Backend_splice_read(n) ==
    /\ SpliceAt({"source"})
    /\ ~locals.linux
    /\ SourceGives(n)
    /\ fds' = [fds EXCEPT !.src = SubSeq(@, n + 1, Len(@))]
    /\ LET l == [locals EXCEPT !.buf = SubSeq(fds.src, 1, n),
                               !.xfers = IF n = 0 THEN @ ELSE Append(@, n),
                               !.total = IF locals.fn = "splice" THEN n ELSE @ + n]
       IN  locals' = IF n = 0 THEN Backend_splice_finish(l)
                     ELSE [l EXCEPT !.stage = "write"]
    /\ UNCHANGED backend

\* Other builds: write(dest, buf, left) accepts n bytes.
Backend_splice_write(n) ==
    /\ SpliceAt({"write"})
    /\ n \in 1..Len(locals.buf)
    /\ fds' = [fds EXCEPT !.dest = @ \o SubSeq(locals.buf, 1, n)]
    /\ LET l == [locals EXCEPT !.buf = Backend_splice_advance(@, n)]
       IN  locals' = IF l.buf # <<>> THEN l
                     ELSE IF l.fn = "splice" THEN Backend_splice_finish(l)
                     ELSE [l EXCEPT !.stage = "source"]
    /\ UNCHANGED backend

\* if (watcher->fiber == Qnil) { watcher->fiber = rb_fiber_current();
\* ev_io_init(&watcher->io, Backend_io_callback, fd, events); }: the fd and
\* events of the watcher that ev_io_start then starts.
libev_wait_fd_with_watcher_init(l, fd, events) ==
    IF l.awaited THEN l.io ELSE {[fd |-> fd, events |-> events]}

\* ev_io_init of watcher->r.io and watcher->w.io, on every call.
libev_wait_rw_fd_with_watcher_init(r_fd, w_fd) ==
    {[fd |-> r_fd, events |-> "EV_READ"], [fd |-> w_fd, events |-> "EV_WRITE"]}

\* A syscall fails with EAGAIN: the fiber waits, in the Linux build in
\* libev_wait_rw_fd_with_watcher(src, dest), in the others in
\* libev_wait_fd_with_watcher(src, EV_READ) or (dest, EV_WRITE).
Backend_splice_blocked ==
    /\ SpliceAt({"source", "write"})
    /\ locals.waits < MaxWaits
    /\ locals' = [locals EXCEPT
                    !.waiting = TRUE, !.awaited = TRUE, !.waits = @ + 1,
                    !.io = IF locals.linux
                           THEN libev_wait_rw_fd_with_watcher_init("src", "dest")
                           ELSE IF locals.stage = "source"
                           THEN libev_wait_fd_with_watcher_init(locals, "src", "EV_READ")
                           ELSE libev_wait_fd_with_watcher_init(locals, "dest", "EV_WRITE")]
    /\ UNCHANGED <<backend, fds>>

\* A syscall fails with another error: rb_syserr_fail.
Backend_splice_failed ==
    /\ SpliceAt({"source", "write"})
    /\ locals' = [locals EXCEPT !.stage = "done", !.result = Outcome("raise", SysErr)]
    /\ UNCHANGED <<backend, fds>>

\* The fiber is resumed with v in its wait.
Backend_splice_resume(v) ==
    /\ locals.fn \in SpliceFns
    /\ locals.waiting
    /\ locals' = IF TEST_EXCEPTION(v)
                 THEN [locals EXCEPT !.waiting = FALSE, !.stage = "done",
                                     !.result = Outcome("raise", v)]
                 ELSE [locals EXCEPT !.waiting = FALSE]
    /\ UNCHANGED <<backend, fds>>

\* The fiber is resumed with v in backend_snooze.
Backend_splice_snoozed(v) ==
    /\ SpliceAt({"snooze"})
    /\ locals' = IF TEST_EXCEPTION(v)
                 THEN [locals EXCEPT !.stage = "done", !.result = Outcome("raise", v)]
                 ELSE Backend_splice_finish([locals EXCEPT !.awaited = TRUE])
    /\ UNCHANGED <<backend, fds>>

NextSplice ==
    \/ \E n \in 0..MaxChunk : Backend_splice_splice(n)
    \/ \E n \in 0..MaxChunk : Backend_splice_read(n)
    \/ \E n \in 1..MaxChunk : Backend_splice_write(n)
    \/ Backend_splice_blocked
    \/ Backend_splice_failed
    \/ \E v \in ResumeValues : Backend_splice_resume(v)
    \/ \E v \in ResumeValues : Backend_splice_snoozed(v)

SpecSplice == InitSplice /\ [][NextSplice]_vars

RECURSIVE SeqSum(_)
SeqSum(q) == IF q = <<>> THEN 0 ELSE Head(q) + SeqSum(Tail(q))

\* C20: in both builds a splice that returns gives the count of the one
\* transfer of at most maxlen bytes the source made, a splice_to_eof that
\* returns gives the count of all transfers up to EOF, and dest holds exactly
\* the bytes taken from the source, in source order: the result is the same
\* function of the source and of the transfers in the two builds.
C20_Splice ==
    (locals.fn \in SpliceFns /\ locals.result.k = "return") =>
        LET source == Bytes("src", locals.srclen)
            n == locals.result.v
        IN  /\ fds.dest = SubSeq(source, 1, n)
            /\ fds.src = SubSeq(source, n + 1, Len(source))
            /\ n = SeqSum(locals.xfers)
            /\ \A i \in 1..Len(locals.xfers) : locals.xfers[i] \in 1..locals.maxlen
            /\ locals.fn = "splice" =>
                  /\ Len(locals.xfers) <= 1
                  /\ n = 0 <=> source = <<>>
            /\ locals.fn = "splice_to_eof" => n = Len(source)

\* C21: the watcher active while an op waits for a syscall that would block is
\* registered on that syscall's fd for the matching event, at every wait of
\* the op: in splice and splice_to_eof without splice(2), the source for
\* reading, then dest for writing.
C21_WatcherFd ==
    (locals.fn \in SpliceFns /\ ~locals.linux /\ locals.waiting) =>
        locals.io = IF locals.stage = "source"
                    THEN {[fd |-> "src", events |-> "EV_READ"]}
                    ELSE {[fd |-> "dest", events |-> "EV_WRITE"]}

\* A splice_to_eof of the build without splice(2) has returned after a wait,
\* two reads and a write that accepted part of the buffer.
C20_Witness ==
    /\ locals.fn = "splice_to_eof"
    /\ ~locals.linux
    /\ locals.result.k = "return"
    /\ locals.waits > 0
    /\ Len(locals.xfers) = 2
    /\ locals.xfers[1] = 2

\* ------------------------------------------------------------------ Backend_accept, Backend_accept_loop
\* One call of accept or accept_loop on a listening socket on which up to
\* MaxConns connections arrive. fds.open holds the accepted fds that are open,
\* fds.sockets the fds a socket object owns. socket_class is a class of
\* sockets: rb_obj_alloc and MakeOpenFile return.
MaxConns == 3

AcceptFns == {"accept", "accept_loop"}

\* Mutant: the exception is raised with the fd left open.
Backend_accept_close_kept(open, fd) == open

\* close(fd); // close fd since we're raising an exception
Backend_accept_close(open, fd) == open \ {fd}

InitAccept ==
    /\ InitAlone
    /\ \E fn \in AcceptFns :
          locals = [fn |-> fn, stage |-> "loop", fd |-> -1, awaited |-> FALSE, waits |-> 0,
                    accepted |-> 0, socket |-> -1, result |-> Outcome("none", None)]
    /\ fds = [open |-> {}, sockets |-> {}]

AcceptAt(stage) == locals.fn \in AcceptFns /\ locals.stage = stage

\* accept(2) returns a new fd; then backend_snooze.
Backend_accept_accepted ==
    /\ AcceptAt("loop")
    /\ locals.accepted < MaxConns
    /\ LET fd == locals.accepted + 1
       IN  /\ locals' = [locals EXCEPT !.fd = fd, !.accepted = fd, !.stage = "snooze"]
           /\ fds' = [fds EXCEPT !.open = @ \cup {fd}]
    /\ UNCHANGED backend

\* accept(2) fails with EAGAIN: libev_wait_fd_with_watcher.
Backend_accept_blocked ==
    /\ AcceptAt("loop")
    /\ locals.waits < MaxWaits
    /\ locals' = [locals EXCEPT !.stage = "wait", !.awaited = TRUE, !.waits = @ + 1,
                                !.fd = -1]
    /\ UNCHANGED <<backend, fds>>

\* accept(2) fails with another error: rb_syserr_fail.
Backend_accept_failed ==
    /\ AcceptAt("loop")
    /\ locals' = [locals EXCEPT !.stage = "done", !.fd = -1,
                                !.result = Outcome("raise", SysErr)]
    /\ UNCHANGED <<backend, fds>>

\* The fiber is resumed with v in libev_wait_fd_with_watcher.
Backend_accept_resume(v) ==
    /\ AcceptAt("wait")
    /\ locals' = IF TEST_EXCEPTION(v)
                 THEN [locals EXCEPT !.stage = "done", !.result = Outcome("raise", v)]
                 ELSE [locals EXCEPT !.stage = "loop"]
    /\ UNCHANGED <<backend, fds>>

\* The fiber is resumed with v in backend_snooze: close(fd) and goto error, or
\* the socket object is made and given the fd (fp->fd = fd), then returned by
\* accept and yielded by accept_loop.
Backend_accept_snoozed(v) ==
    /\ AcceptAt("snooze")
    /\ IF TEST_EXCEPTION(v)
       THEN /\ fds' = [fds EXCEPT !.open = Backend_accept_close(@, locals.fd)]
            /\ locals' = [locals EXCEPT !.stage = "done", !.result = Outcome("raise", v)]
       ELSE /\ fds' = [fds EXCEPT !.sockets = @ \cup {locals.fd}]
            /\ locals' = IF locals.fn = "accept"
                         THEN [locals EXCEPT !.stage = "done", !.socket = locals.fd,
                                             !.result = Outcome("return", <<"socket", locals.fd>>)]
                         ELSE [locals EXCEPT !.stage = "yield", !.socket = locals.fd]
    /\ UNCHANGED backend

\* rb_yield(socket) returns, or the block raises.
Backend_accept_loop_yielded(v) ==
    /\ AcceptAt("yield")
    /\ locals' = IF TEST_EXCEPTION(v)
                 THEN [locals EXCEPT !.stage = "done", !.result = Outcome("raise", v)]
                 ELSE [locals EXCEPT !.stage = "loop", !.socket = -1]
    /\ UNCHANGED <<backend, fds>>

\* A socket that was yielded is closed by the program.
Backend_accept_socket_closed(fd) ==
    /\ locals.fn = "accept_loop"
    /\ fd \in fds.sockets
    /\ fd \in fds.open
    /\ fds' = [fds EXCEPT !.open = @ \ {fd}]
    /\ UNCHANGED <<backend, locals>>

NextAccept ==
    \/ Backend_accept_accepted
    \/ Backend_accept_blocked
    \/ Backend_accept_failed
    \/ \E v \in ResumeValues : Backend_accept_resume(v)
    \/ \E v \in ResumeValues : Backend_accept_snoozed(v)
    \/ \E v \in ResumeValues : Backend_accept_loop_yielded(v)
    \/ \E fd \in 1..MaxConns : Backend_accept_socket_closed(fd)

SpecAccept == InitAccept /\ [][NextAccept]_vars

Position(f) == runqueue_index(runqueue, f)

\* C2: every fiber appears at most once in the run queue, and scheduling a
\* fiber that is already queued replaces its resume value only: the queue
\* keeps its length, every fiber keeps its position and every other entry
\* keeps its value.
C2_QueuedOnce ==
    /\ \A i, j \in DOMAIN runqueue : runqueue[i].fiber = runqueue[j].fiber => i = j
    /\ \A f \in Queued(runqueue), v \in {Nil, Cancel, Sentinel(1)}, p \in BOOLEAN :
          LET r == Backend_schedule_fiber(runqueue, f, v, p)
          IN  /\ Len(r) = Len(runqueue)
              /\ \A i \in DOMAIN r :
                    /\ r[i].fiber = runqueue[i].fiber
                    /\ r[i].value = IF r[i].fiber = f THEN v ELSE runqueue[i].value

\* A snoozing fiber, queued with nil by its snooze, has been scheduled again
\* with an exception: the entry holds the new value and the queue is full.
C2_Witness ==
    \E f \in Fibers :
        /\ pc[f] = "snooze"
        /\ f \in Queued(runqueue)
        /\ runqueue[Position(f)].value = Cancel
        /\ Len(runqueue) = NFibers

\* C3: snooze puts the calling fiber at the back of the run queue, every
\* fiber that was queued at the call and has not been switched to since is
\* ahead of it, and the fiber is resumed only when none of them is left.
C3_SnoozeOrder ==
    /\ [](\A f \in Fibers : pc[f] = "snooze" =>
            /\ f \in Queued(runqueue)
            /\ (phase = "switch" /\ cur = f) => runqueue[Len(runqueue)].fiber = f
            /\ \A g \in snoozed[f] : g \in Queued(runqueue) /\ Position(g) < Position(f))
    /\ [][\A f \in Fibers : (pc[f] = "snooze" /\ pc'[f] # "snooze") => snoozed[f] = {}]_vars

\* A fiber has snoozed behind two queued fibers, neither switched to yet.
C3_Witness ==
    \E f \in Fibers :
        /\ pc[f] = "snooze"
        /\ op[f] = "snooze"
        /\ Cardinality(snoozed[f]) >= 2
        /\ Position(f) = Len(runqueue)

\* C4: a fiber suspended in await is not in the run queue before a schedule
\* call is made for it, the queue then holds the value of the latest such
\* call, the fiber is not resumed without one, and await returns that value.
C4_AwaitQuiescent ==
    /\ [](\A f \in Fibers : pc[f] \in AwaitPcs =>
            /\ sched[f] = None => f \notin Queued(runqueue)
            /\ f \in Queued(runqueue) => runqueue[Position(f)].value = sched[f])
    /\ [][\A f \in Fibers : (pc[f] \in AwaitPcs /\ pc'[f] \notin AwaitPcs) =>
            /\ sched[f] # None
            /\ f \in Queued(runqueue)
            /\ op[f] \in {"suspend", "wait_io"} =>
                  ret'[f] = RAISE_IF_EXCEPTION(sched[f])]_vars

\* Two fibers are suspended in await and have been scheduled since: the one
\* in wait_io by the callback of its watcher, with nil, the other by a fiber,
\* with an exception; the first is about to be resumed.
C4_Witness ==
    \E f, g \in Fibers :
        /\ pc[f] = "await" /\ op[f] = "wait_io" /\ sched[f] = Nil
        /\ pc[g] = "await" /\ sched[g] = Cancel
        /\ Queued(runqueue) = {f, g}
        /\ Resuming(f, "await")

\* C5: fibers are resumed in the order of their insertion into the run
\* queue, a prioritised insert going before every entry queued at that
\* moment: every fiber that has to go before a queued fiber is ahead of it
\* in the queue, and a fiber is resumed when none is left. Callbacks insert
\* at the back, so fibers woken in one poll resume in callback order.
C5_ResumeOrder ==
    /\ [](\A f \in Queued(runqueue) : \A g \in ahead[f] :
            g \in Queued(runqueue) /\ Position(g) < Position(f))
    /\ [][\A f \in Fibers : (f \in Queued(runqueue) /\ f \notin Queued(runqueue')) =>
            ahead[f] = {}]_vars

\* Two watchers fired in one poll and both fibers are queued, in callback order.
C5_Witness ==
    /\ phase = "poll"
    /\ \E w1, w2 \in pollset :
          /\ w1 # w2
          /\ w1.fiber \in ahead[w2.fiber]
          /\ Position(w1.fiber) < Position(w2.fiber)


\* ------------------------------------------------------------------ claims on the operations
\* The watchers whose struct lives in a frame of f.
WatchersOf(f, ws) == {w \in ws : w.fiber = f}

LiveTimeouts(f) == {TimeoutW(f, d) : d \in 1..Len(frames[f])}

\* C1: every start of a watcher is matched by one stop on every exit path of
\* the operation that started it: no watcher is started twice or stopped
\* without a start, and a fiber that is not inside an operation has no
\* watcher started or active in the event loop except the timers of the
\* timeout blocks it is still inside.
C1_WatchersPaired ==
    /\ ~unpaired
    /\ \A f \in Fibers : pc[f] = "idle" =>
          /\ WatchersOf(f, owned) = LiveTimeouts(f)
          /\ WatchersOf(f, active) \subseteq LiveTimeouts(f)

\* A peer has cancelled the worker inside two nested timeout blocks: the
\* operation and both frames were left by the exception, and nothing of the
\* worker is left in the event loop.
C1_Witness ==
    /\ pc[1] = "idle"
    /\ ret[1] = Outcome("raise", Cancel)
    /\ Len(tmo[1]) = 2
    /\ frames[1] = <<>>
    /\ WatchersOf(1, owned) = {}

\* C8: when a timeout exits, its timer is stopped; if the timer fired before
\* the block finished, the timeout raises the fresh exception built from E, or
\* returns move_on_value without E; otherwise it returns the block's value or
\* raises the block's exception.
C8_Timeout ==
    \A f \in Fibers : \A i \in DOMAIN tmo[f] :
        LET e == tmo[f][i]
        IN  /\ e.stopped
            /\ IF e.fired THEN e.out = Converted(e.exc, e.d) ELSE e.out.v = e.block.v

\* C9: a timeout frame converts its own sentinel and nothing else: what the
\* block raised or returned passes unchanged, the frame's timer stopped,
\* unless it is the sentinel of this frame; and a sentinel is only ever queued
\* for, or handed to, a fiber inside the frame whose timer fired.
C9_NestedTimeouts ==
    /\ \A f \in Fibers : \A i \in DOMAIN tmo[f] :
          LET e == tmo[f][i]
          IN  /\ e.stopped
              /\ IF e.block.v = Sentinel(e.d)
                 THEN e.out = Converted(e.exc, e.d)
                 ELSE e.out.v = e.block.v /\ (e.block.k = "raise" => e.out.k = "raise")
    /\ \A i \in DOMAIN runqueue : \A d \in 1..MaxDepth :
          runqueue[i].value = Sentinel(d) =>
             /\ d <= Len(frames[runqueue[i].fiber])
             /\ frames[runqueue[i].fiber][d].fired
    /\ \A f \in Fibers : \A d \in 1..MaxDepth :
          ret[f].v = Sentinel(d) => d <= Len(frames[f]) /\ frames[f][d].fired

\* The outer timer fired while the inner block was waiting: the inner frame
\* passed the outer sentinel on, and the outer frame converted it.
C9_Witness ==
    /\ Len(tmo[1]) = 2
    /\ tmo[1][1].d = 2
    /\ tmo[1][1].block = Outcome("raise", Sentinel(1))
    /\ tmo[1][1].out = Outcome("raise", Sentinel(1))
    /\ tmo[1][2].d = 1
    /\ tmo[1][2].out = Converted(tmo[1][2].exc, 1)

\* The syscall of the last step failed with an errno that is neither the
\* operation's "would block" nor EINTR.
HardFailure ==
    /\ syscall.errno \notin {"none", "EINTR"}
    /\ syscall.errno # (IF syscall.fn = "connect" THEN "EINPROGRESS" ELSE "EAGAIN")

\* C13: when the syscall of read, read_loop, feed_loop, write, writev, send,
\* accept, accept_loop, connect, splice or splice_to_eof fails with an errno
\* that is neither "would block" (EINPROGRESS for connect) nor EINTR, the step
\* that made it leaves the operation with a syscall failure carrying that
\* errno: the fiber goes on running, it neither waits nor repeats the
\* syscall, and none of the operation's watchers is started or active.
C13_SyscallFailure ==
    (HardFailure /\ syscall.fn # "splice_chunks") =>
        /\ phase = "run"
        /\ pc[cur] = "idle"
        /\ ret[cur] = rb_syserr_fail(syscall.errno)
        /\ WatchersOf(cur, owned) = LiveTimeouts(cur)
        /\ WatchersOf(cur, active) \subseteq LiveTimeouts(cur)

\* connect(2) has failed with EAGAIN inside a timeout block, after an earlier
\* operation had waited: the failure is raised through the block.
C13_Witness ==
    /\ syscall = [errno |-> "EAGAIN", fn |-> "connect"]
    /\ ret[cur] = rb_syserr_fail("EAGAIN")
    /\ Len(tmo[cur]) = 1
    /\ pc[cur] = "idle"

C14Ops == {"read", "read_eof", "write", "writev", "send", "accept", "connect", "splice",
           "splice_fb", "splice_chunks", "wait_io", "sleep", "timer_loop", "waitpid",
           "waitpid_pidfd"}

\* The step resumes f: switch_fiber takes it off the front of the run queue.
ResumeStep(f) ==
    /\ Resuming(f, pc[f])
    /\ runqueue' # runqueue

\* What the operation f has just left handed to its caller: the outcome of
\* the innermost timeout block it was in, or of the fiber's call.
Raised(f) == IF tmo'[f] = <<>> THEN ret'[f] ELSE tmo'[f][1].block

\* C14: a fiber resumed from the await or the snooze of read, write, writev,
\* send, accept, connect, splice, splice_chunks, wait_io, sleep, timer_loop or
\* waitpid with an exception as resume value leaves the operation in that
\* step: the exception is raised to the caller, the operation's watchers are
\* stopped, and no syscall is made.
C14_ExceptionResume ==
    [][\A f \in Fibers :
          (ResumeStep(f) /\ op[f] \in C14Ops /\ TEST_EXCEPTION(Head(runqueue).value)) =>
              /\ pc'[f] = "idle"
              /\ phase' = "run"
              /\ Raised(f) = Outcome("raise", Head(runqueue).value)
              /\ WatchersOf(f, owned') = {TimeoutW(f, d) : d \in 1..Len(frames'[f])}
              /\ WatchersOf(f, active') \subseteq WatchersOf(f, owned')
              /\ syscall' = NoSyscall]_vars

\* The worker waits in splice_chunks with both watchers started, inside a
\* timeout block, and is about to be resumed with the exception a peer
\* scheduled it with.
C14_Witness ==
    /\ Resuming(1, "await_rw")
    /\ op[1] = "splice_chunks"
    /\ Head(runqueue).value = Cancel
    /\ Len(frames[1]) = 1
    /\ {ReadW(1), WriteW(1)} \subseteq active

\* The watcher structs of f that are active: the two ev_io of one
\* libev_rw_io count as one.
ActiveStructs(f) ==
    {IF w.slot \in {"r", "w"} THEN Watcher(f, "rw", 0) ELSE w : w \in WatchersOf(f, active)}

Present == {f \in Fibers : role[f] # "absent"}

C16_Current(f) == cur = f /\ phase = "run"

C16_OnQueue(f) == Cardinality({i \in DOMAIN runqueue : runqueue[i].fiber = f}) = 1

C16_Parked(f) ==
    /\ f \notin Queued(runqueue)
    /\ pc[f] = "await" /\ op[f] = "suspend" /\ ActiveStructs(f) = {}

C16_Watching(f) ==
    /\ f \notin Queued(runqueue)
    /\ pc[f] \in AwaitPcs /\ Cardinality(ActiveStructs(f)) = 1

\* C16 as stated: every fiber is in exactly one of the states current, on the
\* run queue (once), parked, or suspended with exactly one active watcher
\* that refers to it (a fiber counts as parked or suspended only while it is
\* not queued).
C16_FiberStates ==
    \A f \in Present :
        Cardinality({s \in {"current", "queued", "parked", "watching"} :
                        \/ s = "current" /\ C16_Current(f)
                        \/ s = "queued" /\ C16_OnQueue(f)
                        \/ s = "parked" /\ C16_Parked(f)
                        \/ s = "watching" /\ C16_Watching(f)}) = 1

\* The timers of the timeout blocks f is inside that have not fired.
C16_Timers(f) == {TimeoutW(f, d) : d \in {i \in 1..Len(frames[f]) : ~frames[f][i].fired}}

\* C16, amended: a fiber is running, or it has snoozed and is on the run
\* queue, or it is suspended in an await; no fiber is queued twice, and the
\* running fiber is not queued. A suspended fiber that is not on the run
\* queue has active exactly one watcher struct of its operation (none for a
\* bare suspend) and, besides, the timer of every timeout block it is inside
\* whose timer has not fired.
C16_FiberStatesAmended ==
    \A f \in Present :
        /\ Cardinality({i \in DOMAIN runqueue : runqueue[i].fiber = f}) <= 1
        /\ pc[f] = "idle" <=> C16_Current(f)
        /\ pc[f] = "idle" => f \notin Queued(runqueue)
        /\ pc[f] = "snooze" => f \in Queued(runqueue)
        /\ (pc[f] \in AwaitPcs /\ f \notin Queued(runqueue)) =>
              /\ {w \in WatchersOf(f, active) : w.slot = "timeout"} = C16_Timers(f)
              /\ Cardinality(ActiveStructs(f) \ C16_Timers(f)) =
                    (IF op[f] = "suspend" THEN 0 ELSE 1)

\* The worker is suspended in splice inside two timeout blocks, not queued:
\* both ev_io of its libev_rw_io and both timers are active.
C16_Witness ==
    /\ pc[1] = "await_rw"
    /\ op[1] = "splice"
    /\ 1 \notin Queued(runqueue)
    /\ WatchersOf(1, active) = {ReadW(1), WriteW(1), TimeoutW(1, 1), TimeoutW(1, 2)}

\* The fibers waiting in libev_wait_rw_fd_with_watcher.
RwWaiting == {f \in Fibers : pc[f] \in {"await_r", "await_w", "await_rw"}}

\* C22: a fiber waiting with the read/write watcher pair is made runnable by
\* the first callback of any of its registered watchers.
C22_FirstCallback ==
    \A f \in RwWaiting :
        (\E w \in RwWatchers(f, pc[f]) : w \in pollset) => f \in Queued(runqueue)

\* C23: a fiber waiting with both a read and a write watcher is made runnable
\* by the callback that completes the set, once both sides have fired.
C23_AllSides ==
    \A f \in RwWaiting :
        RwWatchers(f, pc[f]) \subseteq pollset => f \in Queued(runqueue)

\* C25: when the syscall of read, write, writev, send, accept, connect or
\* splice fails with EINTR, the operation makes the syscall again at once: the
\* step that made it does not end with the operation raising that failure.
C25_Eintr ==
    (syscall.errno = "EINTR" /\ syscall.fn # "splice_chunks") =>
        ~(pc[cur] = "idle" /\ ret[cur] = rb_syserr_fail("EINTR"))

\* C27: when the async watcher of a fiber waiting in wait_event is signalled,
\* its callback schedules that fiber: the fiber is on the run queue.
C27_AsyncSchedules ==
    \A f \in Fibers :
        (pc[f] = "await" /\ op[f] \in {"wait_event", "wait_event_noraise"}
            /\ AsyncW(f) \in pollset) => f \in Queued(runqueue)

C29Ops == {"write", "writev", "send", "splice", "splice_to_eof", "splice_fb",
           "splice_to_eof_fb", "splice_chunks"}

\* The step ends with a syscall of the running operation that succeeded.
Succeeds == syscall'.errno = "none" /\ syscall'.fn # "none"

\* C29: a write, send, writev, splice, splice_to_eof or splice_chunks that
\* has not awaited snoozes after its successful syscall, and one that has
\* awaited returns without snoozing; resumed from its snooze with no
\* exception it returns at once, making no further syscall and suspending no
\* more. So every call that returns has been suspended at least once, and has
\* snoozed once or not at all.
C29_SnoozeOnce ==
    [][\A f \in Fibers :
          /\ (cur = f /\ pc[f] = "idle" /\ Succeeds) =>
                pc'[f] = "snooze" /\ ~awaited'[f]
          /\ (op[f] \in C29Ops /\ pc[f] \in AwaitPcs /\ cur' = f /\ Succeeds) =>
                pc'[f] = "idle" /\ ret'[f].k = "return"
          /\ (op[f] \in C29Ops /\ pc[f] = "snooze" /\ pc'[f] # "snooze") =>
                /\ ~awaited[f]
                /\ pc'[f] = "idle"
                /\ syscall' = NoSyscall
                /\ ret'[f].k \in {"return", "raise"}
                /\ ~TEST_EXCEPTION(Backend_switch_fiber(runqueue).value) =>
                      ret'[f].k = "return"]_vars

\* writev, called inside a timeout block, has written everything at its first
\* attempt and is suspended in its snooze.
C29_Witness ==
    /\ pc[1] = "snooze"
    /\ op[1] = "writev"
    /\ ~awaited[1]
    /\ syscall.errno = "none" /\ syscall.fn # "none"
    /\ Len(frames[1]) = 1


\* The value f is queued with; None when it is not queued.
QueuedValue(rq, f) ==
    IF f \in Queued(rq) THEN rq[runqueue_index(rq, f)].value ELSE None

\* C31: a fiber queued with a timeout sentinel keeps it through every watcher
\* callback that runs before the fiber resumes: no callback of the operation
\* inside the timeout block replaces the sentinel with another resume value.
C31_SentinelKept ==
    [][\A f \in Fibers : \A d \in 1..MaxDepth :
          (pollset' # pollset /\ pollset' # {} /\ QueuedValue(runqueue, f) = Sentinel(d))
              => QueuedValue(runqueue', f) = Sentinel(d)]_vars

\* ------------------------------------------------------------------ waiting on the read/write pair
\* The worker runs splice, splice_to_eof and splice_chunks, which wait in
\* libev_wait_rw_fd_with_watcher, while a peer snoozes: polls are blocking
\* when the worker waits alone and non-blocking when the peer is queued.
RwStep(f) ==
    \/ \E k \in RwOps : Backend_op(f, k)
    \/ \E k \in RwOps : Backend_op_resume_await(f, k)
    \/ \E k \in RwOps : Backend_op_resume_snooze(f, k)

NextRw ==
    \/ \E f \in Fibers : RwStep(f)
    \/ \E f \in Fibers : Fiber_snooze(f)
    \/ \E f \in Fibers : Fiber_snooze_resume(f)
    \/ Reactor

SpecRw == Init /\ [][NextRw]_vars

\* C33: a fiber suspended in libev_wait_rw_fd_with_watcher one of whose
\* registered fds stays ready (the callback of its watcher runs in a poll
\* again and again as long as the watcher is active) is made runnable, if the
\* reactor keeps being polled.
C33_EventuallyRunnable ==
    \A slot \in {"r", "w"} :
        ([]<><<Backend_poll_enter>>_vars /\ SF_vars(InvokeCallback(Watcher(1, slot, 0))))
            => ((pc[1] \in {"await_r", "await_w", "await_rw"}
                    /\ Watcher(1, slot, 0) \in RwWatchers(1, pc[1]))
                ~> (1 \in Queued(runqueue)))

\* The worker waits with both fds registered and has been made runnable by
\* the third callback.
C33_Witness ==
    /\ pc[1] = "await_rw"
    /\ 1 \in Queued(runqueue)
    /\ ref[1] = -1
    /\ phase = "poll"
====
